---- MODULE Spec2Model ----
(***************************************************************************)
(* Model of the orchestrator core (src/orchestrator.py) and of the human   *)
(* decision injection point (src/web_server.py).                           *)
(*                                                                         *)
(* Texts (prompts, replies, questions, agent output) are sequences of      *)
(* tokens: <<>> is the empty string, \o is concatenation.  Short atoms     *)
(* (status names, ids, user_reply, user_choice) are TLA+ strings.          *)
(***************************************************************************)
EXTENDS Integers, Sequences, FiniteSets, TLC

(***************************************************************************)
(* Bounds                                                                  *)
(***************************************************************************)
\* largest configured turn cap ("max_turns_performer") of a pair followed alone
MaxTurns == 2
\* largest configured turn cap in the runs of the whole scheduler
SchedMaxTurns == 1
\* number of POSTs to the decision endpoint that the model follows
MaxWeb == 2
\* number of threads that record token usage concurrently
NumRecorders == 2
\* number of external calls of a run that the model follows
MaxCalls == 2
\* largest configured "max_compact_attempts"
MaxAttemptCap == 2
\* the configured "max_tokens" of the runs with a budget
TokenLimit == 40
\* longest list of a planner output
MaxItems == 3
\* longest question, in tokens, of the envelopes given to the supervisor
\* alone (the question "(1) A (2) B" is given besides)
MaxQuestion == 3
\* TokenUsage.warning_threshold and compact_threshold, in percent
DefaultWarning == 75
DefaultCompact == 85

(***************************************************************************)
(* Exchange record (init_exchange, append_exchange_message)                *)
(***************************************************************************)
\* pending == {} : every .get() on it is falsy
EmptyPending ==
    [type |-> "", question |-> <<>>, reason |-> <<>>, options |-> <<>>,
     ok_reply |-> <<>>, ng_reply |-> <<>>, choice_reply_template |-> <<>>,
     user_reply |-> "", user_choice |-> "", user_approved |-> FALSE]

\* read_yaml of a missing file: {}
NoRecord ==
    [performer |-> "", status |-> "", turn |-> 0, history |-> <<>>,
     pending |-> EmptyPending]

\* "performer" stands for the mapping of name, task and notes
init_exchange ==
    [performer |-> "name_task_notes", status |-> "waiting_for_concertmaster",
     turn |-> 0, history |-> <<>>, pending |-> EmptyPending]

append_exchange_message(data, role, content, msg_type) ==
    [data EXCEPT !.history =
        Append(@, [role |-> role, type |-> msg_type, content |-> content])]

RECURSIVE LastOfRole(_, _, _)
LastOfRole(history, role, k) ==
    IF k = 0 THEN 0
    ELSE IF history[k].role = role THEN k
    ELSE LastOfRole(history, role, k - 1)

\* get_last_message: content of the latest entry of that role, None (here
\* <<>>, equally falsy) when there is none
get_last_message(data, role) ==
    LET k == LastOfRole(data.history, role, Len(data.history))
    IN IF k = 0 THEN <<>> ELSE data.history[k].content

(***************************************************************************)
(* Decision envelopes                                                      *)
(***************************************************************************)
\* a dict produced by the supervisor agent; an absent key is "" / <<>>
NoConfirm ==
    [type |-> "", question |-> <<>>, reason |-> <<>>, options |-> <<>>,
     choices |-> <<>>, ok_reply |-> <<>>, ng_reply |-> <<>>,
     choice_reply_template |-> <<>>]

ActionData(action, reply, reason, question, ctype, options) ==
    [action |-> action, reply |-> reply, reason |-> reason,
     question |-> question, confirm_type |-> ctype, options |-> options,
     choices |-> <<>>, ok_reply |-> <<>>, ng_reply |-> <<>>,
     choice_reply_template |-> <<>>, confirm |-> NoConfirm]

\* value-or-default of Python's  a or b
OrElse(a, b) == IF a # <<>> THEN a ELSE b
OrElseS(a, b) == IF a # "" THEN a ELSE b

\* parse_action_output: stdout is either a YAML mapping or other text; text
\* that is not a mapping (the empty output included) degrades to a reply
parse_action_output(out) ==
    IF out.kind = "map" THEN out.data
    ELSE ActionData("reply", out.text, <<"yaml_parse_failed_returning_full_text">>,
                    <<>>, "", <<>>)

(***************************************************************************)
(* extract_choices_from_question: a question is a sequence of             *)
(* blank-separated tokens; "(1)", "1." and "1)" are the enumerators the    *)
(* three regular expressions look for, every other token is a word         *)
(* without digits or parentheses.                                          *)
(***************************************************************************)
Digits == {"1", "2", "3"}

EnumTok(kind, d) ==
    CASE kind = "paren" -> "(" \o d \o ")"
      [] kind = "dot" -> d \o "."
      [] OTHER -> d \o ")"

EnumKinds == <<"paren", "dot", "rparen">>

KindOf(t) ==
    IF \E d \in Digits : t = EnumTok("paren", d) THEN "paren"
    ELSE IF \E d \in Digits : t = EnumTok("dot", d) THEN "dot"
    ELSE IF \E d \in Digits : t = EnumTok("rparen", d) THEN "rparen"
    ELSE "word"

NumOf(t) == CHOOSE d \in Digits : \E k \in {"paren", "dot", "rparen"} : t = EnumTok(k, d)

\* the class of the text group: [^(] for the first pattern, [^0-9] for the
\* other two
TextAllows(kind, t) ==
    IF kind = "paren" THEN KindOf(t) # "paren" ELSE KindOf(t) = "word"

RECURSIVE TextEnd(_, _, _)
\* first position at or after j where the lazy text group must stop
TextEnd(q, kind, j) ==
    IF j > Len(q) THEN j
    ELSE IF KindOf(q[j]) = kind \/ ~TextAllows(kind, q[j]) THEN j
    ELSE TextEnd(q, kind, j + 1)

RECURSIVE FindAll(_, _, _)
\* re.findall(pattern, question): the (num, text) groups, left to right.
\* The text group needs one character at least; when it is only the blank
\* before the next enumerator, the second and third pattern cannot start
\* their next match at that enumerator (no blank is left in front of it).
\* The third pattern also ends its text inside a token "(n)": the text
\* takes the "(" and the lookahead accepts "n)".
FindAll(q, kind, p) ==
    IF p > Len(q) THEN <<>>
    ELSE IF KindOf(q[p]) # kind THEN FindAll(q, kind, p + 1)
    ELSE IF p = Len(q) THEN <<>>
    ELSE LET e == TextEnd(q, kind, p + 1)
             text == SubSeq(q, p + 1, e - 1)
         IN IF e > Len(q) \/ KindOf(q[e]) = kind
            THEN <<[num |-> NumOf(q[p]), text |-> text]>>
                 \o FindAll(q, kind, IF kind # "paren" /\ e = p + 1 THEN e + 1 ELSE e)
            ELSE IF kind = "rparen" /\ KindOf(q[e]) = "paren"
            THEN <<[num |-> NumOf(q[p]), text |-> text \o <<"(">>]>>
                 \o FindAll(q, kind, e + 1)
            ELSE FindAll(q, kind, p + 1)

FormatChoices(matches) ==
    [k \in 1..Len(matches) |-> <<matches[k].num \o ":">> \o matches[k].text]

RECURSIVE FirstPattern(_, _)
FirstPattern(q, k) ==
    IF k > Len(EnumKinds) THEN <<>>
    ELSE LET matches == FindAll(q, EnumKinds[k], 1)
         IN IF Len(matches) >= 2 THEN FormatChoices(matches)
            ELSE FirstPattern(q, k + 1)

extract_choices_from_question(question) == FirstPattern(question, 1)

(***************************************************************************)
(* normalize_confirm_payload, build_reply_from_pending                     *)
(***************************************************************************)
\* str.lower() on the atoms that occur
Lower(s) ==
    CASE s = "OK" -> "ok"
      [] s = "NG" -> "ng"
      [] s = "Choice" -> "choice"
      [] s = "Codex" -> "codex"
      [] OTHER -> s

DefaultQuestion == <<"confirmation_not_set">>

NonEmptyOnly(options) == SelectSeq(options, LAMBDA opt : opt # <<>>)

\* mutant: the default question is not substituted
normalize_confirm_payload_no_default(action_data) ==
    LET confirm == action_data.confirm
        given_type == Lower(OrElseS(confirm.type, action_data.confirm_type))
        question == OrElse(confirm.question, action_data.question)
        explicit == NonEmptyOnly(OrElse(confirm.options, OrElse(confirm.choices,
                        OrElse(action_data.options, action_data.choices))))
        options == IF explicit = <<>>
                   THEN extract_choices_from_question(question)
                   ELSE explicit
    IN [type |-> IF given_type \in {"ok_ng", "choice", "free_text"}
                 THEN given_type
                 ELSE IF options # <<>> THEN "choice" ELSE "ok_ng",
        question |-> question,
        reason |-> OrElse(confirm.reason, action_data.reason),
        options |-> options,
        ok_reply |-> OrElse(confirm.ok_reply,
                        OrElse(action_data.ok_reply, action_data.reply)),
        ng_reply |-> OrElse(confirm.ng_reply, action_data.ng_reply),
        choice_reply_template |-> OrElse(confirm.choice_reply_template,
                                         action_data.choice_reply_template)]

normalize_confirm_payload(action_data) ==
    LET confirm == action_data.confirm
        given_type == Lower(OrElseS(confirm.type, action_data.confirm_type))
        q0 == OrElse(confirm.question, action_data.question)
        question == IF q0 = <<>> THEN DefaultQuestion ELSE q0
        reason == OrElse(confirm.reason, action_data.reason)
        explicit == NonEmptyOnly(OrElse(confirm.options, OrElse(confirm.choices,
                        OrElse(action_data.options, action_data.choices))))
        options == IF explicit = <<>>
                   THEN extract_choices_from_question(question)
                   ELSE explicit
        confirm_type == IF given_type \in {"ok_ng", "choice", "free_text"}
                        THEN given_type
                        ELSE IF options # <<>> THEN "choice" ELSE "ok_ng"
    IN [type |-> confirm_type,
        question |-> question,
        reason |-> reason,
        options |-> options,
        ok_reply |-> OrElse(confirm.ok_reply,
                        OrElse(action_data.ok_reply, action_data.reply)),
        ng_reply |-> OrElse(confirm.ng_reply, action_data.ng_reply),
        choice_reply_template |-> OrElse(confirm.choice_reply_template,
                                         action_data.choice_reply_template)]

\* template.replace("{choice}", choice)
ReplaceChoice(template, choice) ==
    [k \in 1..Len(template) |->
        IF template[k] = "{choice}" THEN choice ELSE template[k]]

OkWords == {"ok", "yes", "y", "true", "1", "shounin", "hai"}

build_reply_from_pending(pending) ==
    LET pending_type == Lower(OrElseS(pending.type, "ok_ng"))
        question == pending.question
    IN IF pending_type = "choice" THEN
           LET choice == OrElseS(pending.user_choice, pending.user_reply)
           IN IF pending.choice_reply_template # <<>>
              THEN ReplaceChoice(pending.choice_reply_template, choice)
              ELSE IF question # <<>>
              THEN <<"question:">> \o question \o <<"choice:", choice, "proceed_with_choice">>
              ELSE <<"user_choice:", choice, "proceed_with_choice">>
       ELSE IF pending_type = "free_text" THEN
           IF question # <<>>
           THEN <<"question:">> \o question \o <<"answer:", pending.user_reply, "proceed_with_answer">>
           ELSE <<"user_answer:", pending.user_reply>>
       ELSE
           LET decision == IF pending.user_reply # "" THEN pending.user_reply
                           ELSE IF pending.user_approved THEN "OK" ELSE "NG"
           IN IF Lower(decision) \in OkWords THEN
                  IF pending.ok_reply # <<>> THEN pending.ok_reply
                  ELSE IF question # <<>>
                  THEN <<"question:">> \o question \o <<"answer:", "OK", "proceed_as_proposed">>
                  ELSE <<"user_answer:", "OK", "proceed_as_proposed">>
              ELSE
                  IF pending.ng_reply # <<>> THEN pending.ng_reply
                  ELSE IF question # <<>>
                  THEN <<"question:">> \o question \o <<"answer:", "NG", "propose_a_fix">>
                  ELSE <<"user_answer:", "NG", "propose_a_fix">>

(***************************************************************************)
(* Task graph normalizer: unique_name, normalize_dependency_list,          *)
(* normalize_assignments                                                   *)
(***************************************************************************)
RECURSIVE FreeSuffix(_, _, _)
FreeSuffix(name, used, idx) ==
    IF (name \o "-" \o ToString(idx)) \in used
    THEN FreeSuffix(name, used, idx + 1)
    ELSE name \o "-" \o ToString(idx)

\* mutant: a taken name is returned as it is
unique_name_taken(name, used) == name

unique_name(name, used) ==
    IF name \notin used THEN name ELSE FreeSuffix(name, used, 2)

\* a list of strings: blank items are dropped
normalize_dependency_list(value) == SelectSeq(value, LAMBDA dep : dep # "")

RECURSIVE AssignIds(_, _, _)
\* first loop of normalize_assignments: ids made non-empty and unique
AssignIds(raw, idx, used_ids) ==
    IF idx > Len(raw) THEN <<>>
    ELSE LET raw_id == IF raw[idx].id = "" THEN "task-" \o ToString(idx)
                       ELSE raw[idx].id
             id == IF raw_id \in used_ids THEN unique_name(raw_id, used_ids)
                   ELSE raw_id
         IN <<[id |-> id, deps |-> normalize_dependency_list(raw[idx].deps)]>>
            \o AssignIds(raw, idx + 1, used_ids \cup {id})

\* mutant: the second loop drops every dependency id
FilterDeps_drops_all(inst, used_ids) == [inst EXCEPT !.deps = <<>>]

\* second loop: self references and unknown ids are dropped
FilterDeps(inst, used_ids) ==
    [inst EXCEPT !.deps =
        SelectSeq(SelectSeq(@, LAMBDA dep : dep # "" /\ dep # inst.id),
                  LAMBDA dep : dep \in used_ids)]

normalize_assignments(raw) ==
    LET withIds == AssignIds(raw, 1, {})
        used_ids == {withIds[k].id : k \in 1..Len(withIds)}
    IN [k \in 1..Len(withIds) |-> FilterDeps(withIds[k], used_ids)]

(***************************************************************************)
(* Planner output to plan: normalize_task_entry, normalize_tasks,          *)
(* split_task_lines, assign_instruments, normalize_score                   *)
(*                                                                         *)
(* A planner item is a string, a mapping with the keys id, name, task,     *)
(* deps and preferred_instrument (a key that is absent or falsy is ""),    *)
(* or a value of another type.  A dependency value is None, a string, a    *)
(* list of strings or a value of another type.  The free-text task is a    *)
(* sequence of lines, each with or without a bullet prefix.                *)
(***************************************************************************)
\* str.strip() on the atoms that occur
Strip(s) ==
    CASE s = " " -> ""
      [] s = " a " -> "a"
      [] s = " T " -> "T"
      [] OTHER -> s

DepNone == [t |-> "none", s |-> "", items |-> <<>>]
DepStr(s) == [t |-> "str", s |-> s, items |-> <<>>]
DepList(items) == [t |-> "list", s |-> "", items |-> items]
DepOther == [t |-> "other", s |-> "", items |-> <<>>]

\* normalize_dependency_list on a value of any type, lines 469-480
normalize_dependency_value(value) ==
    CASE value.t = "none" -> <<>>
      [] value.t = "str" -> IF Strip(value.s) # "" THEN <<Strip(value.s)>> ELSE <<>>
      [] value.t = "list" ->
            LET kept == SelectSeq(value.items, LAMBDA dep : Strip(dep) # "")
            IN [n \in 1..Len(kept) |-> Strip(kept[n])]
      [] OTHER -> <<>>

StrItem(text) ==
    [kind |-> "str", text |-> text, id |-> "", name |-> "", task |-> "",
     deps |-> DepNone, preferred |-> ""]
DictItem(id, name, task, deps, preferred) ==
    [kind |-> "dict", text |-> "", id |-> id, name |-> name, task |-> task,
     deps |-> deps, preferred |-> preferred]
OtherItem == [StrItem("") EXCEPT !.kind = "other"]

\* normalize_task_entry returned None
NoEntry == [id |-> "", task |-> "", notes |-> "", preferred |-> "", deps |-> <<>>,
            group |-> "none"]

normalize_task_entry(item, default_group) ==
    CASE item.kind = "str" ->
            IF Strip(item.text) = "" THEN NoEntry
            ELSE [id |-> "", task |-> Strip(item.text), notes |-> "", preferred |-> "",
                  deps |-> <<>>, group |-> default_group]
      [] item.kind = "dict" ->
            IF item.task = "" THEN NoEntry
            ELSE [id |-> Strip(IF item.id # "" THEN item.id ELSE item.name),
                  task |-> Strip(item.task),
                  notes |-> "",
                  preferred |-> Strip(item.preferred),
                  deps |-> normalize_dependency_value(item.deps),
                  group |-> default_group]
      [] OTHER -> NoEntry

RECURSIVE Entries(_, _, _)
\* one loop of normalize_tasks over a list of the planner output; by_name:
\* the loop replaces "preferred" of a mapping by its name (lines 545-546,
\* 562-563)
Entries(items, default_group, by_name) ==
    IF items = <<>> THEN <<>>
    ELSE LET item == Head(items)
             entry == normalize_task_entry(item, default_group)
             named == IF by_name /\ item.kind = "dict"
                      THEN [entry EXCEPT !.preferred = Strip(item.name)]
                      ELSE entry
         IN (IF entry = NoEntry THEN <<>> ELSE <<named>>)
            \o Entries(Tail(items), default_group, by_name)

Line(bullet, text) == [bullet |-> bullet, text |-> text]

\* task.strip() as one text
Whole(text) == IF \E n \in 1..Len(text) : text[n].text # "" THEN "task_text" ELSE ""

split_task_lines(text) ==
    LET lines == SelectSeq(text, LAMBDA line : line.text # "")
        marked == SelectSeq(lines, LAMBDA line : line.bullet)
        bullets == [n \in 1..Len(marked) |-> marked[n].text]
    IN IF lines = <<>> THEN <<>>
       ELSE IF Len(bullets) >= 2 THEN SelectSeq(bullets, LAMBDA b : b # "")
       ELSE <<Whole(text)>>

PlainTask(text) ==
    [id |-> "", task |-> text, notes |-> "", preferred |-> "", deps |-> <<>>,
     group |-> "bag"]

\* a key of the planner output that is absent or not a list is <<>>
normalize_tasks(sc, text) ==
    LET graph == Entries(sc.dag, "dag", FALSE) \o Entries(sc.bag, "bag", FALSE)
        t1 == IF graph = <<>> THEN Entries(sc.performers, "bag", TRUE) ELSE graph
        t2 == IF t1 = <<>> THEN Entries(sc.tasks, "bag", FALSE) ELSE t1
        t3 == IF t2 = <<>> THEN Entries(sc.instruments, "bag", TRUE) ELSE t2
        parts == SelectSeq(split_task_lines(text), LAMBDA part : Strip(part) # "")
        t4 == IF t3 = <<>> THEN [n \in 1..Len(parts) |-> PlainTask(Strip(parts[n]))]
              ELSE t3
    IN IF t4 = <<>> /\ Whole(text) # "" THEN <<PlainTask(Whole(text))>> ELSE t4

\* mutant: a pool name that is taken is not skipped
SkipUsed_none(pool, pool_index, used) == pool_index

RECURSIVE SkipUsed(_, _, _)
\* lines 601-602: the first pool index at or after pool_index not in used
SkipUsed(pool, pool_index, used) ==
    IF pool_index <= Len(pool) /\ pool[pool_index] \in used
    THEN SkipUsed(pool, pool_index + 1, used)
    ELSE pool_index

RECURSIVE AssignFrom(_, _, _, _, _)
\* the loop of assign_instruments from task idx on (pool_index counts from 1)
AssignFrom(entries, idx, pool, pool_index, used) ==
    IF idx > Len(entries) THEN <<>>
    ELSE LET item == entries[idx]
             preferred == Strip(item.preferred)
             at == SkipUsed(pool, pool_index, used)
             name == IF preferred # "" THEN unique_name(preferred, used)
                     ELSE IF at <= Len(pool) THEN unique_name(pool[at], used)
                     ELSE "performer-" \o ToString(idx)
             next == IF preferred # "" THEN pool_index
                     ELSE IF at <= Len(pool) THEN at + 1
                     ELSE at
         IN <<[name |-> name, task |-> Strip(item.task), notes |-> Strip(item.notes),
               id |-> Strip(item.id), deps |-> item.deps, group |-> Strip(item.group)]>>
            \o AssignFrom(entries, idx + 1, pool, next, used \cup {name})

assign_instruments(entries, names) ==
    AssignFrom(entries, 1, SelectSeq(names, LAMBDA name : Strip(name) # ""), 1, {})

\* the keys of normalize_score's result that the run reads
normalize_score(sc, text, names) ==
    [instruments |-> assign_instruments(normalize_tasks(sc, text), names)]

fallback_score(text) == [dag |-> <<>>, bag |-> <<>>, performers |-> <<>>,
                         tasks |-> <<StrItem(Whole(text))>>, instruments |-> <<>>]

(***************************************************************************)
(* Inputs from the environment                                             *)
(***************************************************************************)
TextOut(text) == [kind |-> "text", text |-> text, data |-> ActionData("", <<>>, <<>>, <<>>, "", <<>>)]
MapOut(data) == [kind |-> "map", text |-> <<>>, data |-> data]

\* a YAML value that is truthy and not a string: a number, a list, a mapping
NotAString == "not_a_string"

\* stdout of the supervisor agent: empty (unparsable), and an envelope of
\* every action, the confirmation with and without a question, the reply
\* and the action with a value that is not a string
ConcertmasterOutputs ==
    { TextOut(<<>>),
      MapOut(ActionData("done", <<>>, <<"ok">>, <<>>, "", <<>>)),
      MapOut(ActionData("reply", <<"R">>, <<>>, <<>>, "", <<>>)),
      MapOut(ActionData("needs_user_confirm", <<>>, <<>>, <<>>, "", <<>>)),
      MapOut(ActionData("needs_user_confirm", <<>>, <<>>, <<"Q">>, "free_text", <<>>)),
      MapOut(ActionData("reply", <<NotAString>>, <<>>, <<>>, "", <<>>)),
      MapOut(ActionData(NotAString, <<"R">>, <<>>, <<>>, "", <<>>)) }

QuestionTokens == {"(1)", "(2)", "1.", "2)", "A", "B"}

ExampleQuestion == <<"(1)", "A", "(2)", "B">>

RECURSIVE Questions(_)
Questions(n) ==
    IF n = 0 THEN {<<>>}
    ELSE LET shorter == Questions(n - 1)
         IN shorter \cup {Append(q, t) : q \in shorter, t \in QuestionTokens}

\* "confirm_type" of an envelope: absent, the three valid types, a valid
\* type in capitals, another string, a value that is not a string
ConfirmTypes == {"", "ok_ng", "choice", "free_text", "Choice", "other", NotAString}

\* envelopes that ask for a confirmation, with and without explicit options
ConfirmOutputs ==
    ConcertmasterOutputs \cup
    { MapOut(ActionData("needs_user_confirm", <<>>, <<>>, question, ctype, options)) :
        question \in Questions(MaxQuestion) \cup {ExampleQuestion}, ctype \in ConfirmTypes,
        options \in {<<>>, << <<"X">> >>} }

\* stdout of the executor agent, stripped
PerformerOutputs == { <<>>, <<"out">> }

\* JSON bodies POSTed to the decision endpoint; approved is "none" when
\* the key is absent or not a bool
Payload(decision, choice, reply, approved) ==
    [decision |-> decision, choice |-> choice, reply |-> reply, approved |-> approved]

WebPayloads ==
    { Payload("", "", "", "true"),
      Payload("", "", "", "false"),
      Payload("", "c", "", "none"),
      Payload("", "", "text", "none"),
      Payload("", "", "text", "true"),
      Payload("NG", "", "", "none") }

Inst(id, deps) == [id |-> id, deps |-> deps]

\* plans handed to normalize_assignments: a chain, a cycle beside an
\* independent task, a cycle with a task depending on it, duplicate ids with
\* self and unknown references, and a single task
RawPlans ==
    { <<Inst("a", <<>>), Inst("b", <<"a">>)>>,
      <<Inst("a", <<"b">>), Inst("b", <<"a">>), Inst("", <<>>)>>,
      <<Inst("a", <<"b">>), Inst("b", <<"a">>), Inst("c", <<"a">>)>>,
      <<Inst("a", <<"a", "x">>), Inst("a", <<>>), Inst("b", <<"a-2", "a">>)>>,
      <<Inst("", <<>>), Inst("", <<"task-1">>), Inst("", <<"task-2", "", "task-1">>)>>,
      <<Inst("a", <<>>), Inst("b", <<"a">>), Inst("c", <<>>)>>,
      <<Inst("", <<>>)>> }

\* items of the lists of a planner output: a text, a blank text, a value
\* that is neither text nor mapping, and mappings: with a self, an unknown
\* and a forward reference; with an id that strips to the first one's, a
\* reference to a default id and a preferred name; with the id under "name"
\* and a blank task; with the id the de-duplication of the first gives;
\* without a task; and with a reference to the third mapping's id
PlannerItems ==
    { StrItem(" T "),
      StrItem(" "),
      OtherItem,
      DictItem("a", "", "T", DepList(<<"a", "x", "b">>), ""),
      DictItem(" a ", "", "T", DepStr("task-2"), "solo"),
      DictItem("", "b", " ", DepNone, ""),
      DictItem("a-2", "", "T", DepList(<<" a ", " ", "a-2-2">>), "solo"),
      DictItem("a", "", "", DepOther, ""),
      DictItem("c", "", "T", DepStr("b"), "") }

RECURSIVE ItemLists(_)
\* the lists of at most n planner items
ItemLists(n) ==
    IF n = 0 THEN {<<>>}
    ELSE LET shorter == ItemLists(n - 1)
         IN shorter \cup {Append(list, item) : list \in shorter, item \in PlannerItems}

\* the keys normalize_tasks reads, in its order
ScoreKeys == <<"dag", "bag", "performers", "tasks", "instruments">>

EmptyScore == [dag |-> <<>>, bag |-> <<>>, performers |-> <<>>, tasks |-> <<>>,
               instruments |-> <<>>]

\* what extract_yaml returned: a mapping with a list under one of the keys
\* and possibly one task under "bag" or "tasks"
PlannerOutputs ==
    { [[EmptyScore EXCEPT ![other] = more] EXCEPT ![ScoreKeys[k]] = list] :
        k \in 1..Len(ScoreKeys), list \in ItemLists(MaxItems),
        other \in {"bag", "tasks"}, more \in {<<>>, <<StrItem(" T ")>>} }

\* the task of the command line: blank, one line, a bullet list with a
\* blank line, and one bullet followed by a plain line
TaskTexts ==
    { <<Line(FALSE, "")>>,
      <<Line(FALSE, "do")>>,
      <<Line(TRUE, "x"), Line(FALSE, ""), Line(TRUE, "y")>>,
      <<Line(TRUE, "x"), Line(FALSE, "z")>> }

\* config "instrument_pool": none, one with a blank name and the suffixed
\* form of another, and one whose only name is a synthesized name
InstrumentPools == { <<>>, <<"solo-2", " ", "solo">>, <<"performer-2">> }

\* the dict run_external returns: the exit code and what stdout holds, a
\* mapping with entries ("map"), the empty mapping ("empty_map"), text that
\* is no mapping ("text") or nothing ("empty")
Result(returncode, kind, data) ==
    [returncode |-> returncode, stdout |-> [kind |-> kind, data |-> data]]

\* run_external has not returned
NoResult == Result(-1, "none", EmptyScore)

\* what the planner's call returns: every planner mapping with exit code 0,
\* the outputs without a mapping, and a non-zero exit code with and without
\* a mapping on stdout
RewriterResults ==
    {Result(0, "map", data) : data \in PlannerOutputs}
        \cup { Result(0, "empty", EmptyScore), Result(0, "text", EmptyScore),
               Result(0, "empty_map", EmptyScore), Result(1, "empty", EmptyScore),
               Result(1, "map", [EmptyScore EXCEPT !.tasks = <<StrItem(" T ")>>]) }

(***************************************************************************)
(* State                                                                   *)
(***************************************************************************)
VARIABLES
    \* run(): the scheduler's locals
    assignments,      \* the normalized plan: sequence of [id, deps]
    verbose,          \* the --verbose flag
    max_turns,        \* config "max_turns_performer", line 1475
    task_states,      \* index -> [index, id, deps, status]
    done_ids,         \* ids of the tasks observed done
    exchange_paths,   \* index -> TRUE once start_task created the record
    schedPc,          \* position of the scheduler loop
    schedIdx,         \* index of the record the scheduler polls next
    notice,           \* the deadlock warning has been printed
    stage,            \* "stage" of the status file as last written
    progress,         \* "progress" of the status file as last written,
                      \* as <<numerator, denominator>>
    exit_code,        \* value returned by run(); -1 while it runs
    performances,     \* the executor outputs collected for the mix
    \* one exchange record (file), lock and thread pair per task
    exchange,         \* index -> record on disk
    lock,             \* index -> "free" | "concertmaster" | "performer"
    stop_event,       \* index -> BOOLEAN
    cmPc, cmTurn, cmFn, cmD,
    pfPc, pfTurn, pfOut, pfD,
    \* the decision endpoint of the dashboard
    webPc, webReq, webData, webCount,
    answered,   \* history variable: the tasks whose pending payload was last
                \* assigned by the decision writer
    \* the token ledger of a run and the closures of run() around it
    tracker,              \* the TokenUsage object
    compact_attempts,     \* compact_attempts[0]
    max_compact_attempts, \* config "token_management.max_compact_attempts"
    warning_fired,        \* warning_fired[0]
    compact_fired,        \* compact_fired[0]
    config,               \* role -> "cmd" of the role's configuration
    rec,                  \* recording thread -> position and locals
    warnings,             \* number of on_token_warning messages on stderr
    cycles,               \* number of "/compact" announcements on stderr
    hot,        \* history variable: threshold -> it has fired and the ratio
                \* has not been below it since
    \* the planning step of run()
    raw_score,        \* the planner's mapping before normalization
    task,             \* the task of the command line, as lines
    instrument_pool,  \* config "instrument_pool"
    score,            \* the result of normalize_score
    normPc,           \* position in the planning step
    rewriter_result,  \* what run_external returned for the planner
    score_source      \* "rewriter" | "fallback"

schedVars == <<assignments, verbose, max_turns, task_states, done_ids, exchange_paths,
               schedPc, schedIdx, notice, stage, progress, exit_code,
               performances>>
cmVars == <<cmPc, cmTurn, cmFn, cmD>>
pfVars == <<pfPc, pfTurn, pfOut, pfD>>
webVars == <<webPc, webReq, webData, webCount, answered>>
govVars == <<tracker, compact_attempts, max_compact_attempts, warning_fired, compact_fired,
             config, rec, warnings, cycles, hot>>
planVars == <<raw_score, task, instrument_pool, score, normPc, rewriter_result,
              score_source>>
vars == <<schedVars, exchange, lock, stop_event, cmVars, pfVars, webVars, govVars,
         planVars>>

Tasks == 1..Len(assignments)

Terminal == {"done", "error"}

(***************************************************************************)
(* concertmaster_worker: the supervisor loop of task i                     *)
(***************************************************************************)
NoFn == [kind |-> "none", text |-> <<>>, confirm |-> EmptyPending, prompt |-> ""]

Fn(kind, text, confirm) ==
    [kind |-> kind, text |-> text, confirm |-> confirm, prompt |-> ""]

\* the condition of line 1142
HasDecision(pending) ==
    pending.user_reply # "" \/ pending.user_choice # "" \/ pending.user_approved

\* the update functions handed to update_exchange
\* mutant: the instruction built from the decision does not count as a turn
apply_user_no_turn(d, reply) ==
    [append_exchange_message(d, "concertmaster", reply, "prompt")
        EXCEPT !.status = "waiting_for_performer",
               !.pending = EmptyPending]

apply_user(d, reply) ==
    [append_exchange_message(d, "concertmaster", reply, "prompt")
        EXCEPT !.status = "waiting_for_performer",
               !.pending = EmptyPending,
               !.turn = d.turn + 1]

force_done(d) == [d EXCEPT !.status = "done"]

apply_done(d, reason) ==
    [append_exchange_message(d, "concertmaster", reason, "review")
        EXCEPT !.status = "done", !.pending = EmptyPending]

apply_user_wait(d, reason, confirm) ==
    [append_exchange_message(d, "concertmaster", reason, "review")
        EXCEPT !.status = "waiting_for_user",
               !.pending = [type |-> confirm.type,
                            question |-> confirm.question,
                            reason |-> confirm.reason,
                            options |-> confirm.options,
                            ok_reply |-> confirm.ok_reply,
                            ng_reply |-> confirm.ng_reply,
                            choice_reply_template |-> confirm.choice_reply_template,
                            user_reply |-> "",
                            user_choice |-> "",
                            user_approved |-> FALSE]]

apply_reply(d, reply) ==
    [append_exchange_message(d, "concertmaster", reply, "prompt")
        EXCEPT !.status = "waiting_for_performer",
               !.pending = EmptyPending,
               !.turn = d.turn + 1]

ApplyFn(fn, d) ==
    CASE fn.kind = "apply_user" -> apply_user(d, fn.text)
      [] fn.kind = "force_done" -> force_done(d)
      [] fn.kind = "apply_done" -> apply_done(d, fn.text)
      [] fn.kind = "apply_user_wait" -> apply_user_wait(d, fn.text, fn.confirm)
      [] fn.kind = "apply_reply" -> apply_reply(d, fn.text)

\* lines 1134-1184: one pass from the top of the loop to the first blocking
\* point (a wait, update_exchange, or run_external)
CmPoll(i) ==
    /\ cmPc[i] = "poll"
    /\ LET data == exchange[i]
           status == data.status
       IN IF stop_event[i] \/ status \in Terminal THEN
              /\ cmPc' = [cmPc EXCEPT ![i] = "exit"]
              /\ UNCHANGED cmFn
          ELSE IF status = "waiting_for_user" THEN
              IF HasDecision(data.pending) THEN
                  /\ cmFn' = [cmFn EXCEPT ![i] =
                        Fn("apply_user", build_reply_from_pending(data.pending), EmptyPending)]
                  /\ cmPc' = [cmPc EXCEPT ![i] = "update"]
              ELSE UNCHANGED <<cmPc, cmFn>>
          ELSE IF status # "waiting_for_concertmaster" THEN
              UNCHANGED <<cmPc, cmFn>>
          ELSE IF cmTurn[i] >= max_turns THEN
              /\ cmFn' = [cmFn EXCEPT ![i] = Fn("force_done", <<>>, EmptyPending)]
              /\ cmPc' = [cmPc EXCEPT ![i] = "update"]
          ELSE
              /\ cmFn' = [cmFn EXCEPT ![i] = [NoFn EXCEPT !.prompt =
                        IF get_last_message(data, "performer") # <<>>
                        THEN "review" ELSE "initial"]]
              /\ cmPc' = [cmPc EXCEPT ![i] = "invoke"]
    /\ UNCHANGED <<govVars, planVars, schedVars, exchange, lock, stop_event, cmTurn, cmD, pfVars, webVars>>

\* lines 1185-1231: the agent's output is parsed and the update chosen
\* lines 1186-1187: .strip() is called on whatever value "action" and
\* "reply" hold, and raises AttributeError on a value that is not a string
StripRaises(action_data) ==
    action_data.action = NotAString \/ action_data.reply = <<NotAString>>

\* line 1035: .strip() on the value of "type" / "confirm_type"
ConfirmRaises(action_data) ==
    /\ OrElseS(action_data.action, "reply") = "needs_user_confirm"
    /\ OrElseS(action_data.confirm.type, action_data.confirm_type) = NotAString

DecideUpdate(output) ==
    LET action_data == parse_action_output(output)
        action == OrElseS(action_data.action, "reply")
        reply == IF action_data.reply = <<>> THEN <<"continue_please">>
                 ELSE action_data.reply
    IN IF action = "done" THEN Fn("apply_done", action_data.reason, EmptyPending)
       ELSE IF action = "needs_user_confirm"
       THEN LET confirm == normalize_confirm_payload(action_data)
            IN Fn("apply_user_wait", action_data.reason,
                  [EmptyPending EXCEPT !.type = confirm.type,
                                       !.question = confirm.question,
                                       !.reason = confirm.reason,
                                       !.options = confirm.options,
                                       !.ok_reply = confirm.ok_reply,
                                       !.ng_reply = confirm.ng_reply,
                                       !.choice_reply_template = confirm.choice_reply_template])
       ELSE Fn("apply_reply", reply, EmptyPending)

CmDecide(i, output) ==
    /\ cmPc[i] = "invoke"
    /\ LET action_data == parse_action_output(output)
       IN IF StripRaises(action_data) \/ ConfirmRaises(action_data)
          THEN /\ cmPc' = [cmPc EXCEPT ![i] = "dead"]
               /\ UNCHANGED cmFn
          ELSE /\ cmFn' = [cmFn EXCEPT ![i] = DecideUpdate(output)]
               /\ cmPc' = [cmPc EXCEPT ![i] = "update"]
    /\ UNCHANGED <<govVars, planVars, schedVars, exchange, lock, stop_event, cmTurn, cmD, pfVars, webVars>>

CmReturn(i) == \E output \in ConcertmasterOutputs : CmDecide(i, output)

\* run_external lets subprocess.run's TimeoutExpired / OSError propagate:
\* the thread leaves the loop through the finally clause
CmRaise(i) ==
    /\ cmPc[i] = "invoke"
    /\ cmPc' = [cmPc EXCEPT ![i] = "dead"]
    /\ cmFn' = [cmFn EXCEPT ![i] = NoFn]
    /\ UNCHANGED <<govVars, planVars, schedVars, exchange, lock, stop_event, cmTurn, cmD, pfVars, webVars>>

\* update_exchange, first half: take the lock and read the file
CmUpdateRead(i) ==
    /\ cmPc[i] = "update"
    /\ lock[i] = "free"
    /\ lock' = [lock EXCEPT ![i] = "concertmaster"]
    /\ cmD' = [cmD EXCEPT ![i] = exchange[i]]
    /\ cmPc' = [cmPc EXCEPT ![i] = "write"]
    /\ UNCHANGED <<govVars, planVars, schedVars, exchange, stop_event, cmTurn, cmFn, pfVars, webVars>>

\* update_exchange, second half: apply the update, replace the file and
\* release the lock; then the statement after the call (break, continue,
\* turn += 1)
CmUpdateWrite(i) ==
    /\ cmPc[i] = "write"
    /\ exchange' = [exchange EXCEPT ![i] = ApplyFn(cmFn[i], cmD[i])]
    /\ lock' = [lock EXCEPT ![i] = "free"]
    /\ cmPc' = [cmPc EXCEPT ![i] =
            IF cmFn[i].kind \in {"force_done", "apply_done"} THEN "exit" ELSE "poll"]
    /\ cmTurn' = [cmTurn EXCEPT ![i] =
            IF cmFn[i].kind = "apply_reply" THEN @ + 1 ELSE @]
    /\ cmFn' = [cmFn EXCEPT ![i] = NoFn]
    /\ cmD' = [cmD EXCEPT ![i] = NoRecord]
    /\ answered' = IF cmFn[i].kind \in {"apply_user", "apply_user_wait", "apply_reply"}
                   THEN answered \ {i} ELSE answered
    /\ UNCHANGED <<govVars, planVars, schedVars, stop_event, pfVars, webPc, webReq, webData, webCount>>

(***************************************************************************)
(* performer_worker: the executor loop of task i                           *)
(***************************************************************************)
\* mutant: the response is appended and the status left as it was
apply_output_keeps_status(d, output) ==
    append_exchange_message(d, "performer", output, "response")

apply_output(d, output) ==
    [append_exchange_message(d, "performer", output, "response")
        EXCEPT !.status = "waiting_for_concertmaster"]

\* lines 1254-1264: poll, then start the invocation
PfPoll(i) ==
    /\ pfPc[i] = "poll"
    /\ LET status == exchange[i].status
       IN IF stop_event[i] \/ status \in Terminal THEN
              pfPc' = [pfPc EXCEPT ![i] = "exit"]
          ELSE IF status # "waiting_for_performer" THEN
              UNCHANGED pfPc
          ELSE
              pfPc' = [pfPc EXCEPT ![i] = "invoke"]
    /\ UNCHANGED <<govVars, planVars, schedVars, exchange, lock, stop_event, cmVars, pfTurn, pfOut, pfD, webVars>>

\* lines 1264-1275: the invocation returns
PfReturn(i) ==
    /\ pfPc[i] = "invoke"
    /\ \E output \in PerformerOutputs : pfOut' = [pfOut EXCEPT ![i] = output]
    /\ pfTurn' = [pfTurn EXCEPT ![i] = @ + 1]
    /\ pfPc' = [pfPc EXCEPT ![i] = "update"]
    /\ UNCHANGED <<govVars, planVars, schedVars, exchange, lock, stop_event, cmVars, pfD, webVars>>

PfRaise(i) ==
    /\ pfPc[i] = "invoke"
    /\ pfPc' = [pfPc EXCEPT ![i] = "dead"]
    /\ UNCHANGED <<govVars, planVars, schedVars, exchange, lock, stop_event, cmVars, pfTurn, pfOut, pfD, webVars>>

PfUpdateRead(i) ==
    /\ pfPc[i] = "update"
    /\ lock[i] = "free"
    /\ lock' = [lock EXCEPT ![i] = "performer"]
    /\ pfD' = [pfD EXCEPT ![i] = exchange[i]]
    /\ pfPc' = [pfPc EXCEPT ![i] = "write"]
    /\ UNCHANGED <<govVars, planVars, schedVars, exchange, stop_event, cmVars, pfTurn, pfOut, webVars>>

PfUpdateWrite(i) ==
    /\ pfPc[i] = "write"
    /\ exchange' = [exchange EXCEPT ![i] = apply_output(pfD[i], pfOut[i])]
    /\ lock' = [lock EXCEPT ![i] = "free"]
    /\ pfPc' = [pfPc EXCEPT ![i] = "poll"]
    /\ pfD' = [pfD EXCEPT ![i] = NoRecord]
    /\ UNCHANGED <<govVars, planVars, schedVars, stop_event, cmVars, pfTurn, pfOut, webVars>>

(***************************************************************************)
(* web_server.py: POST /api/jobs/{id}/exchanges/{exchange_id}/reply        *)
(***************************************************************************)
\* handle_exchange_reply, lines 996-1018: the arguments passed on
handle_exchange_reply(payload) ==
    LET decision == Lower(payload.decision)
        ok == decision \in {"ok", "yes", "y", "true", "1", "shounin"}
        approved1 == IF decision # "" THEN (IF ok THEN "true" ELSE "false")
                     ELSE payload.approved
        reply1 == IF decision # "" THEN (IF ok THEN "OK" ELSE "NG")
                  ELSE payload.reply
        reply2 == IF payload.choice # "" THEN payload.choice ELSE reply1
        approved2 == IF payload.choice # "" /\ approved1 = "none" THEN "true"
                     ELSE approved1
    IN [reply |-> reply2,
        approved |-> (approved2 = "true"),
        choice |-> payload.choice]

\* update_exchange_reply, lines 605-627, applied to the data it loaded
update_exchange_reply(data, req) ==
    [data EXCEPT !.pending =
        [@ EXCEPT !.user_reply = req.reply,
                  !.user_choice = IF req.choice # "" THEN req.choice ELSE @,
                  !.user_approved = req.approved]]

NoReq == [reply |-> "", approved |-> FALSE, choice |-> "", target |-> 0,
          payload |-> Payload("", "", "", "none")]

\* the request arrives and the handler loads the record (no lock is taken)
WebLoad(i) ==
    /\ webPc = "idle"
    /\ webCount < MaxWeb
    /\ exchange_paths[i]
    /\ \E payload \in WebPayloads :
          LET args == handle_exchange_reply(payload)
          IN webReq' = [reply |-> args.reply, approved |-> args.approved,
                        choice |-> args.choice, target |-> i, payload |-> payload]
    /\ webData' = exchange[i]
    /\ webPc' = "loaded"
    /\ webCount' = webCount + 1
    /\ UNCHANGED <<govVars, planVars, schedVars, exchange, lock, stop_event, cmVars, pfVars, answered>>

\* the handler writes the whole record back
WebWrite ==
    /\ webPc = "loaded"
    /\ exchange' = [exchange EXCEPT ![webReq.target] = update_exchange_reply(webData, webReq)]
    /\ webPc' = "idle"
    /\ webData' = NoRecord
    /\ webReq' = NoReq
    /\ answered' = answered \cup {webReq.target}
    /\ UNCHANGED <<govVars, planVars, schedVars, lock, stop_event, cmVars, pfVars, webCount>>

(***************************************************************************)
(* run(): the scheduler loop, lines 1577-1697                              *)
(***************************************************************************)
\* mutant: a dependency counts as satisfied as soon as its task was started
deps_done_started(state, done) ==
    \A k \in 1..Len(state.deps) :
        \E j \in DOMAIN task_states :
            task_states[j].id = state.deps[k] /\ task_states[j].status # "pending"

\* deps_done, lines 1588-1590
deps_done(state, done) == \A k \in 1..Len(state.deps) : state.deps[k] \in done

\* the task_states comprehension, lines 1577-1585
InitialTaskStates(plan) ==
    [k \in 1..Len(plan) |->
        [index |-> k,
         id |-> IF plan[k].id # "" THEN plan[k].id ELSE "task-" \o ToString(k),
         deps |-> plan[k].deps,
         status |-> "pending"]]

\* line 1559
total_steps == (IF Len(assignments) > 1 THEN Len(assignments) ELSE 1) + 2

\* min() of two ratios with positive denominators
MinRatio(a, b) == IF a[1] * b[2] <= b[1] * a[2] THEN a ELSE b

\* mutant: the lifecycle state of the task is not looked at
Ready_any_status(k) == deps_done(task_states[k], done_ids)

\* the test of line 1649
Ready(k) == task_states[k].status = "pending" /\ deps_done(task_states[k], done_ids)

CountStatus(st) == Cardinality({k \in Tasks : task_states[k].status = st})

\* lines 1648-1650 with start_task (1592-1643) for every ready task: the
\* record is initialised, the lock and stop event created, both threads started
SchedStart ==
    /\ schedPc = "start"
    /\ task_states' = [k \in Tasks |->
            IF Ready(k) THEN [task_states[k] EXCEPT !.status = "running"]
            ELSE task_states[k]]
    /\ exchange' = [k \in Tasks |-> IF Ready(k) THEN init_exchange ELSE exchange[k]]
    /\ exchange_paths' = [k \in Tasks |-> exchange_paths[k] \/ Ready(k)]
    /\ lock' = [k \in Tasks |-> IF Ready(k) THEN "free" ELSE lock[k]]
    /\ stop_event' = [k \in Tasks |-> IF Ready(k) THEN FALSE ELSE stop_event[k]]
    /\ cmPc' = [k \in Tasks |-> IF Ready(k) THEN "poll" ELSE cmPc[k]]
    /\ pfPc' = [k \in Tasks |-> IF Ready(k) THEN "poll" ELSE pfPc[k]]
    /\ schedPc' = IF Len(assignments) = 0 THEN "decide" ELSE "poll"
    /\ schedIdx' = 1
    /\ UNCHANGED <<govVars, planVars, assignments, verbose, performances, max_turns, done_ids, notice, stage, progress, exit_code,
                   cmTurn, cmFn, cmD, pfTurn, pfOut, pfD, webVars>>

\* lines 1655-1668 for one task state: the record of a running task is read
SchedPoll ==
    /\ schedPc = "poll"
    /\ LET k == schedIdx
           running == task_states[k].status = "running" /\ exchange_paths[k]
           seen == exchange[k].status
       IN /\ task_states' =
                IF running /\ seen = "done"
                THEN [task_states EXCEPT ![k].status = "done"]
                ELSE IF running /\ seen = "error"
                THEN [task_states EXCEPT ![k].status = "error"]
                ELSE task_states
          /\ done_ids' = IF running /\ seen = "done"
                         THEN done_ids \cup {task_states[k].id} ELSE done_ids
    /\ schedIdx' = schedIdx + 1
    /\ schedPc' = IF schedIdx = Len(assignments) THEN "decide" ELSE "poll"
    /\ UNCHANGED <<govVars, planVars, assignments, verbose, performances, max_turns, exchange_paths, notice, stage, progress,
                   exit_code, exchange, lock, stop_event, cmVars, pfVars, webVars>>

\* mutant: no deadlock branch, the loop sleeps and polls again
SchedDecide_no_deadlock_break ==
    /\ schedPc = "decide"
    /\ schedPc' = IF Cardinality({k \in DOMAIN task_states : task_states[k].status = "done"})
                        >= Len(assignments)
                     \/ \A k \in DOMAIN task_states :
                            task_states[k].status \notin {"running", "pending"}
                  THEN "join" ELSE "start"
    /\ stage' = "performer"
    /\ progress' = MinRatio(<<1 + CountStatus("done"), total_steps>>, <<19, 20>>)
    /\ UNCHANGED <<govVars, planVars, assignments, verbose, performances, max_turns, task_states, done_ids, exchange_paths,
                   schedIdx, notice, exit_code, exchange, lock, stop_event, cmVars, pfVars,
                   webVars>>

\* lines 1670-1694: the counts, the three ways out of the loop, the sleep
SchedDecide ==
    /\ schedPc = "decide"
    /\ LET done_count == CountStatus("done")
           running_count == CountStatus("running")
           pending_count == CountStatus("pending")
       IN IF done_count >= Len(assignments) THEN
              /\ schedPc' = "join"
              /\ UNCHANGED notice
          ELSE IF running_count = 0 /\ pending_count = 0 THEN
              /\ schedPc' = "join"
              /\ UNCHANGED notice
          ELSE IF running_count = 0 /\ pending_count > 0 THEN
              /\ notice' = (notice \/ verbose)
              /\ schedPc' = "join"
          ELSE
              /\ schedPc' = "start"
              /\ UNCHANGED notice
    /\ stage' = "performer"
    /\ progress' = MinRatio(<<1 + CountStatus("done"), total_steps>>, <<19, 20>>)
    /\ UNCHANGED <<govVars, planVars, assignments, verbose, performances, max_turns, task_states, done_ids, exchange_paths,
                   schedIdx, exit_code, exchange, lock, stop_event, cmVars, pfVars, webVars>>

ThreadOver(pc) == pc \in {"unstarted", "exit", "dead"}

\* lines 1696-1704: every started thread is joined, then the latest output of
\* each task's executor is read from its record ("" without a record)
SchedJoin ==
    /\ schedPc = "join"
    /\ \A k \in Tasks : ThreadOver(cmPc[k]) /\ ThreadOver(pfPc[k])
    /\ schedPc' = "joined"
    /\ performances' = [k \in Tasks |->
            IF exchange_paths[k] THEN get_last_message(exchange[k], "performer")
            ELSE <<>>]
    /\ UNCHANGED <<govVars, planVars, assignments, verbose, max_turns, task_states, done_ids, exchange_paths,
                   schedIdx, notice, stage, progress, exit_code, exchange, lock, stop_event, cmVars,
                   pfVars, webVars>>

\* mutant: a stop that leaves tasks pending is reported as an error
RunAggregate_deadlock_is_error ==
    /\ schedPc = "joined"
    /\ schedPc' = "finished"
    /\ stage' = IF CountStatus("pending") > 0 THEN "error" ELSE "done"
    /\ progress' = <<1, 1>>
    /\ exit_code' = IF CountStatus("pending") > 0 THEN 1 ELSE 0
    /\ UNCHANGED <<govVars, planVars, assignments, verbose, performances, max_turns, task_states, done_ids, exchange_paths,
                   schedIdx, notice, exchange, lock, stop_event, cmVars, pfVars, webVars>>

\* lines 1699-1780: the outputs are collected, the mix (local, or an
\* invocation that returns) is written, stage done is written, run returns 0
RunAggregate ==
    /\ schedPc = "joined"
    /\ schedPc' = "finished"
    /\ stage' = "done"
    /\ \E mix_with_conductor \in BOOLEAN :
          progress' = MinRatio(<<1 + CountStatus("done") + 1
                                    + (IF mix_with_conductor THEN 1 ELSE 0),
                                 total_steps>>, <<1, 1>>)
    /\ exit_code' = 0
    /\ UNCHANGED <<govVars, planVars, assignments, verbose, performances, max_turns, task_states, done_ids, exchange_paths,
                   schedIdx, notice, exchange, lock, stop_event, cmVars, pfVars, webVars>>

\* lines 1706-1723 with 1781-1792: mix_with_conductor is set and the mix
\* invocation raises (timeout, spawn failure); the handler writes stage error
RunMixRaise ==
    /\ schedPc = "joined"
    /\ schedPc' = "failed"
    /\ stage' = "error"
    /\ progress' = <<1, 1>>
    /\ exit_code' = 1
    /\ UNCHANGED <<govVars, planVars, assignments, verbose, performances, max_turns, task_states, done_ids, exchange_paths,
                   schedIdx, notice, exchange, lock, stop_event, cmVars, pfVars, webVars>>

\* a request handled in one piece while no loop is inside update_exchange:
\* WebLoad directly followed by WebWrite
WebPost(i) ==
    /\ webPc = "idle"
    /\ webCount < MaxWeb
    /\ exchange_paths[i]
    /\ lock[i] = "free"
    /\ \E payload \in WebPayloads :
          LET args == handle_exchange_reply(payload)
          IN exchange' = [exchange EXCEPT ![i] = update_exchange_reply(@,
                [reply |-> args.reply, approved |-> args.approved,
                 choice |-> args.choice, target |-> i, payload |-> payload])]
    /\ webCount' = webCount + 1
    /\ answered' = answered \cup {i}
    /\ UNCHANGED <<govVars, planVars, schedVars, lock, stop_event, cmVars, pfVars, webPc, webReq, webData>>

(***************************************************************************)
(* Token ledger: TokenUsage (lines 52-122), detect_cli_type, and the       *)
(* closures of run() around the ledger (lines 1342-1460)                   *)
(*                                                                         *)
(* add_usage is called by run_external (line 825) in whichever thread      *)
(* completed an external call; nothing in the code takes a lock around the *)
(* ledger or around the closures' flags, so each load and each store of a  *)
(* shared cell is a step of its own.  The thresholds are fractions with two*)
(* decimals and are held in percent: for totals below 2^53 the float test  *)
(* total / max_tokens >= threshold is the integer test                     *)
(* total * 100 >= percent * max_tokens.                                    *)
(***************************************************************************)
Recorders == 1..NumRecorders

\* (input_tokens, output_tokens) of one external call, lines 817-822
Usages == {<<15, 0>>, <<12, 7>>, <<34, 0>>}

\* the "cmd" lists of the configured roles
Configs ==
    { [rewriter |-> <<"python", "planner.py">>, concertmaster |-> <<"Codex", "exec">>,
       performer |-> <<"codex", "exec">>],
      [rewriter |-> <<"claude", "-p">>, concertmaster |-> <<>>,
       performer |-> <<"python", "agent.py">>] }

detect_cli_type(cmd_base) ==
    IF cmd_base = <<>> THEN "unknown"
    ELSE IF \E n \in 1..Len(cmd_base) : Lower(cmd_base[n]) = "claude" THEN "claude"
    ELSE IF \E n \in 1..Len(cmd_base) : Lower(cmd_base[n]) = "codex" THEN "codex"
    ELSE "unknown"

\* cmd_bases of on_compact_needed, in its order
cmd_bases == <<"rewriter", "concertmaster", "performer">>

\* TokenUsage.usage_ratio: the ratio as <<numerator, denominator>>
usage_ratio(self) ==
    IF self.max_tokens <= 0 THEN <<0, 1>>
    ELSE <<self.total_combined, self.max_tokens>>

\* ratio >= threshold, the threshold in percent
AtLeast(ratio, percent) == ratio[1] * 100 >= percent * ratio[2]

\* mutant: the thresholds are compared with >
check_thresholds_strict(self) ==
    LET ratio == usage_ratio(self)
    IN IF ratio[1] * 100 > self.compact_threshold * ratio[2] THEN "compact_once"
       ELSE IF ratio[1] * 100 > self.warning_threshold * ratio[2] THEN "warning_once"
       ELSE "idle"

\* TokenUsage._check_thresholds: the callback it calls; both callbacks are
\* set (lines 1459-1460)
check_thresholds(self) ==
    LET ratio == usage_ratio(self)
    IN IF AtLeast(ratio, self.compact_threshold) THEN "compact_once"
       ELSE IF AtLeast(ratio, self.warning_threshold) THEN "warning_once"
       ELSE "idle"

NewTracker(max, warn, compact) ==
    [total_input |-> 0, total_output |-> 0, total_combined |-> 0, call_count |-> 0,
     history |-> <<>>,
     max_tokens |-> max, warning_threshold |-> warn, compact_threshold |-> compact]

Totals(self) ==
    [total_input |-> self.total_input, total_output |-> self.total_output,
     total_combined |-> self.total_combined]

\* a thread outside add_usage
IdleRec(calls) ==
    [pc |-> "idle", calls |-> calls, input_tokens |-> 0, output_tokens |-> 0,
     field |-> 0, tmp |-> 0, compact_results |-> <<>>,
     before |-> Totals(NewTracker(0, 0, 0))]

\* the cells add_usage updates, in its order, and what it adds to each
AddFields == <<"total_input", "total_output", "total_combined", "call_count">>
Amount(t) ==
    <<rec[t].input_tokens, rec[t].output_tokens,
      rec[t].input_tokens + rec[t].output_tokens, 1>>

\* the cells on_compact_needed discounts, in its order (lines 1419-1421)
DiscountFields == <<"total_combined", "total_input", "total_output">>

\* int(x * 0.5) for a non-negative int
Half(x) == x \div 2

HotAfter(self, firedWarning, firedCompact) ==
    [warning |-> (hot.warning \/ firedWarning)
                    /\ AtLeast(usage_ratio(self), self.warning_threshold),
     compact |-> (hot.compact \/ firedCompact)
                    /\ AtLeast(usage_ratio(self), self.compact_threshold)]

runVars == <<schedVars, exchange, lock, stop_event, cmVars, pfVars, webVars>>
closureVars == <<compact_attempts, max_compact_attempts, warning_fired, compact_fired,
                 config>>

RECURSIVE SumCalls(_)
SumCalls(n) == IF n = 0 THEN 0 ELSE rec[n].calls + SumCalls(n - 1)
\* the number of external calls recorded or being recorded
CallsMade == SumCalls(NumRecorders)

\* run_external line 825: a thread enters add_usage
AddUsage(t) ==
    /\ rec[t].pc = "idle"
    /\ CallsMade < MaxCalls
    /\ \E u \in Usages :
          rec' = [rec EXCEPT ![t] = [@ EXCEPT !.pc = "add_load", !.calls = @ + 1,
                                               !.input_tokens = u[1],
                                               !.output_tokens = u[2],
                                               !.field = 1]]
    /\ UNCHANGED <<planVars, runVars, tracker, closureVars, warnings, cycles, hot>>

\* lines 73-77: self.x += y, the load
AddLoad(t) ==
    /\ rec[t].pc = "add_load"
    /\ rec' = [rec EXCEPT ![t] = [@ EXCEPT !.pc = "add_store",
                                           !.tmp = tracker[AddFields[rec[t].field]]]]
    /\ UNCHANGED <<planVars, runVars, tracker, closureVars, warnings, cycles, hot>>

\* lines 73-77: self.x += y, the store; after the last one comes line 86
AddStore(t) ==
    /\ rec[t].pc = "add_store"
    /\ LET f == rec[t].field
           self == [tracker EXCEPT ![AddFields[f]] = rec[t].tmp + Amount(t)[f]]
       IN /\ tracker' = self
          /\ hot' = HotAfter(self, FALSE, FALSE)
          /\ rec' = [rec EXCEPT ![t] =
                        IF f < Len(AddFields)
                        THEN [@ EXCEPT !.pc = "add_load", !.field = f + 1, !.tmp = 0]
                        ELSE [@ EXCEPT !.pc = "check", !.field = 0, !.tmp = 0]]
    /\ UNCHANGED <<planVars, runVars, closureVars, warnings, cycles>>

\* lines 78-86: the call is appended to the history (label and timestamp
\* left out), then the thresholds are checked (lines 94-100)
CheckThresholds(t) ==
    /\ rec[t].pc = "check"
    /\ tracker' = [tracker EXCEPT !.history = Append(@,
                      [input |-> rec[t].input_tokens,
                       output |-> rec[t].output_tokens,
                       combined |-> rec[t].input_tokens + rec[t].output_tokens,
                       cumulative |-> tracker.total_combined])]
    /\ rec' = [rec EXCEPT ![t] =
                  IF check_thresholds(tracker) = "idle" THEN IdleRec(rec[t].calls)
                  ELSE [@ EXCEPT !.pc = check_thresholds(tracker)]]
    /\ UNCHANGED <<planVars, runVars, closureVars, warnings, cycles, hot>>

\* on_warning_once, line 1448
WarningOnceTest(t) ==
    /\ rec[t].pc = "warning_once"
    /\ rec' = [rec EXCEPT ![t] = IF warning_fired THEN IdleRec(rec[t].calls)
                                 ELSE [@ EXCEPT !.pc = "warning_set"]]
    /\ UNCHANGED <<planVars, runVars, tracker, closureVars, warnings, cycles, hot>>

\* on_warning_once, lines 1449-1450, with on_token_warning (message on
\* stderr, status file)
WarningOnceSet(t) ==
    /\ rec[t].pc = "warning_set"
    /\ warning_fired' = TRUE
    /\ warnings' = warnings + 1
    /\ stage' = "token_warning"
    /\ progress' = usage_ratio(tracker)
    /\ hot' = HotAfter(tracker, TRUE, FALSE)
    /\ rec' = [rec EXCEPT ![t] = IdleRec(rec[t].calls)]
    /\ UNCHANGED <<planVars, assignments, verbose, performances, max_turns, task_states, done_ids, exchange_paths,
                   schedPc, schedIdx, notice, exit_code, exchange, lock, stop_event,
                   cmVars, pfVars, webVars, tracker, compact_attempts,
                   max_compact_attempts, compact_fired, config, cycles>>

\* on_compact_once, line 1453
CompactOnceTest(t) ==
    /\ rec[t].pc = "compact_once"
    /\ rec' = [rec EXCEPT ![t] = IF compact_fired THEN IdleRec(rec[t].calls)
                                 ELSE [@ EXCEPT !.pc = "compact_set"]]
    /\ UNCHANGED <<planVars, runVars, tracker, closureVars, warnings, cycles, hot>>

\* on_compact_once, line 1454
CompactOnceSet(t) ==
    /\ rec[t].pc = "compact_set"
    /\ compact_fired' = TRUE
    /\ rec' = [rec EXCEPT ![t] = [@ EXCEPT !.pc = "attempts_test"]]
    /\ UNCHANGED <<planVars, runVars, tracker, compact_attempts, max_compact_attempts,
                   warning_fired, config, warnings, cycles, hot>>

\* on_compact_needed, lines 1371-1376
AttemptsTest(t) ==
    /\ rec[t].pc = "attempts_test"
    /\ rec' = [rec EXCEPT ![t] =
                  [@ EXCEPT !.pc = IF compact_attempts >= max_compact_attempts
                                   THEN "reset" ELSE "attempts_load"]]
    /\ UNCHANGED <<planVars, runVars, tracker, closureVars, warnings, cycles, hot>>

\* line 1378: compact_attempts[0] += 1, the load
AttemptsLoad(t) ==
    /\ rec[t].pc = "attempts_load"
    /\ rec' = [rec EXCEPT ![t] = [@ EXCEPT !.pc = "attempts_store",
                                           !.tmp = compact_attempts]]
    /\ UNCHANGED <<planVars, runVars, tracker, closureVars, warnings, cycles, hot>>

\* line 1378, the store, and the announcement of lines 1379-1383: the
\* mitigation cycle begins
AttemptsStore(t) ==
    /\ rec[t].pc = "attempts_store"
    /\ compact_attempts' = rec[t].tmp + 1
    /\ cycles' = cycles + 1
    /\ hot' = HotAfter(tracker, FALSE, TRUE)
    /\ rec' = [rec EXCEPT ![t] = [@ EXCEPT !.pc = "role", !.tmp = 0,
                                           !.compact_results = <<>>,
                                           !.before = Totals(tracker)]]
    /\ UNCHANGED <<planVars, runVars, tracker, max_compact_attempts, warning_fired, compact_fired,
                   config, warnings>>

RECURSIVE CompactResults(_, _)
\* compact_results after the loop of lines 1397-1413, in the order of
\* cmd_bases: success[n] is what call_compact_command returns for role n
CompactResults(n, success) ==
    IF n = 0 THEN <<>>
    ELSE LET name == cmd_bases[n]
             cli_type == detect_cli_type(config[name])
         IN IF cli_type = "unknown" THEN CompactResults(n - 1, success)
            ELSE Append(CompactResults(n - 1, success),
                        [name |-> name, cli_type |-> cli_type, success |-> success[n]])

\* the roles call_compact_command is called for
KnownRoles == {n \in 1..Len(cmd_bases) : detect_cli_type(config[cmd_bases[n]]) # "unknown"}

\* the loop of lines 1397-1413 and the test of lines 1416-1417; the external
\* agents decide whether each compact call succeeds
CompactRoles(t) ==
    /\ rec[t].pc = "role"
    /\ \E ok \in SUBSET KnownRoles :
          LET results == CompactResults(Len(cmd_bases), [n \in 1..Len(cmd_bases) |-> n \in ok])
              any_success == \E n \in 1..Len(results) : results[n].success
          IN rec' = [rec EXCEPT ![t] =
                        [@ EXCEPT !.compact_results = results,
                                  !.field = IF any_success THEN 1 ELSE 0,
                                  !.pc = IF any_success THEN "discount_load" ELSE "reset"]]
    /\ UNCHANGED <<planVars, runVars, tracker, closureVars, warnings, cycles, hot>>

\* lines 1419-1421: tracker.x = int(tracker.x * 0.5), the load
DiscountLoad(t) ==
    /\ rec[t].pc = "discount_load"
    /\ rec' = [rec EXCEPT ![t] = [@ EXCEPT !.pc = "discount_store",
                                           !.tmp = tracker[DiscountFields[rec[t].field]]]]
    /\ UNCHANGED <<planVars, runVars, tracker, closureVars, warnings, cycles, hot>>

\* lines 1419-1421, the store
DiscountStore(t) ==
    /\ rec[t].pc = "discount_store"
    /\ LET f == rec[t].field
           self == [tracker EXCEPT ![DiscountFields[f]] = Half(rec[t].tmp)]
       IN /\ tracker' = self
          /\ hot' = HotAfter(self, FALSE, FALSE)
          /\ rec' = [rec EXCEPT ![t] =
                        IF f < Len(DiscountFields)
                        THEN [@ EXCEPT !.pc = "discount_load", !.field = f + 1, !.tmp = 0]
                        ELSE [@ EXCEPT !.pc = "reset", !.field = 0, !.tmp = 0]]
    /\ UNCHANGED <<planVars, runVars, closureVars, warnings, cycles>>

\* on_compact_once, line 1457, after on_compact_needed returned (the event
\* log of lines 1423-1441 is written and never read by the run)
CompactOnceReset(t) ==
    /\ rec[t].pc = "reset"
    /\ compact_fired' = FALSE
    /\ rec' = [rec EXCEPT ![t] = IdleRec(rec[t].calls)]
    /\ UNCHANGED <<planVars, runVars, tracker, compact_attempts, max_compact_attempts,
                   warning_fired, config, warnings, cycles, hot>>

\* the ledger before any call, and no recording thread
GovIdle ==
    /\ tracker = NewTracker(0, DefaultWarning, DefaultCompact)
    /\ compact_attempts = 0
    /\ max_compact_attempts = 0
    /\ warning_fired = FALSE
    /\ compact_fired = FALSE
    /\ config = [rewriter |-> <<>>, concertmaster |-> <<>>, performer |-> <<>>]
    /\ rec = <<>>
    /\ warnings = 0
    /\ cycles = 0
    /\ hot = [warning |-> FALSE, compact |-> FALSE]

\* no run is being planned
PlanIdle ==
    /\ raw_score = EmptyScore
    /\ task = <<>>
    /\ instrument_pool = <<>>
    /\ score = [instruments |-> <<>>]
    /\ normPc = "normalized"
    /\ rewriter_result = NoResult
    /\ score_source = "fallback"

(***************************************************************************)
(* Specification of one task's pair with the decision endpoint             *)
(***************************************************************************)
PairInit(n) ==
    /\ exchange = [i \in 1..n |-> init_exchange]
    /\ lock = [i \in 1..n |-> "free"]
    /\ stop_event = [i \in 1..n |-> FALSE]
    /\ cmPc = [i \in 1..n |-> "poll"]
    /\ cmTurn = [i \in 1..n |-> 0]
    /\ cmFn = [i \in 1..n |-> NoFn]
    /\ cmD = [i \in 1..n |-> NoRecord]
    /\ pfPc = [i \in 1..n |-> "poll"]
    /\ pfTurn = [i \in 1..n |-> 0]
    /\ pfOut = [i \in 1..n |-> <<>>]
    /\ pfD = [i \in 1..n |-> NoRecord]

WebInit ==
    /\ webPc = "idle"
    /\ webReq = NoReq
    /\ webData = NoRecord
    /\ webCount = 0
    /\ answered = {}

\* the state right after start_task ran for a plan of one task
Init ==
    /\ assignments = <<[id |-> "task-1", deps |-> <<>>]>>
    /\ verbose = FALSE
    /\ max_turns \in 0..MaxTurns
    /\ task_states = [InitialTaskStates(assignments) EXCEPT ![1].status = "running"]
    /\ done_ids = {}
    /\ exchange_paths = <<TRUE>>
    /\ schedPc = "sleep"
    /\ schedIdx = 0
    /\ notice = FALSE
    /\ stage = "rewriter_done"
    /\ progress = <<1, total_steps>>
    /\ performances = <<>>
    /\ exit_code = -1
    /\ PairInit(1)
    /\ WebInit
    /\ GovIdle
    /\ PlanIdle

CmStep(i) == CmPoll(i) \/ CmReturn(i) \/ CmRaise(i) \/ CmUpdateRead(i) \/ CmUpdateWrite(i)
PfStep(i) == PfPoll(i) \/ PfReturn(i) \/ PfRaise(i) \/ PfUpdateRead(i) \/ PfUpdateWrite(i)

PairNext ==
    \/ \E i \in Tasks : CmPoll(i)
    \/ \E i \in Tasks : CmReturn(i)
    \/ \E i \in Tasks : CmRaise(i)
    \/ \E i \in Tasks : CmUpdateRead(i)
    \/ \E i \in Tasks : CmUpdateWrite(i)
    \/ \E i \in Tasks : PfPoll(i)
    \/ \E i \in Tasks : PfReturn(i)
    \/ \E i \in Tasks : PfRaise(i)
    \/ \E i \in Tasks : PfUpdateRead(i)
    \/ \E i \in Tasks : PfUpdateWrite(i)

Next ==
    \/ PairNext
    \/ \E i \in Tasks : WebLoad(i)
    \/ WebWrite

Spec == Init /\ [][Next]_vars

\* the runs of Spec in which no decision write overlaps another write
SerialNext ==
    \/ PairNext
    \/ \E i \in Tasks : WebPost(i)

SerialSpec == Init /\ [][SerialNext]_vars

\* the supervisor loop alone, its agent answering with any envelope of
\* ConfirmOutputs
CmReturnConfirm(i) == \E output \in ConfirmOutputs : CmDecide(i, output)

ConfirmNext ==
    \/ \E i \in Tasks : CmPoll(i)
    \/ \E i \in Tasks : CmReturnConfirm(i)
    \/ \E i \in Tasks : CmUpdateRead(i)
    \/ \E i \in Tasks : CmUpdateWrite(i)

ConfirmSpec == Init /\ [][ConfirmNext]_vars

(***************************************************************************)
(* Specification of a whole run from the normalized plan on                *)
(***************************************************************************)
RECURSIVE StartableFrom(_)
\* the tasks that can ever be started: the least set closed under
\* "all dependencies are in the set"
StartableFrom(S) ==
    LET ids == {assignments[k].id : k \in S}
        more == {k \in Tasks : \A n \in 1..Len(assignments[k].deps) :
                                    assignments[k].deps[n] \in ids}
    IN IF more = S THEN S ELSE StartableFrom(more)

SchedInit ==
    /\ \E raw \in RawPlans : assignments = normalize_assignments(raw)
    /\ verbose \in BOOLEAN
    /\ max_turns \in 0..SchedMaxTurns
    /\ task_states = InitialTaskStates(assignments)
    /\ done_ids = {}
    /\ exchange_paths = [k \in Tasks |-> FALSE]
    /\ schedPc = "start"
    /\ schedIdx = 1
    /\ notice = FALSE
    /\ stage = "rewriter_done"
    /\ progress = <<1, total_steps>>
    /\ performances = <<>>
    /\ exit_code = -1
    /\ exchange = [k \in Tasks |-> NoRecord]
    /\ lock = [k \in Tasks |-> "free"]
    /\ stop_event = [k \in Tasks |-> FALSE]
    /\ cmPc = [k \in Tasks |-> "unstarted"]
    /\ cmTurn = [k \in Tasks |-> 0]
    /\ cmFn = [k \in Tasks |-> NoFn]
    /\ cmD = [k \in Tasks |-> NoRecord]
    /\ pfPc = [k \in Tasks |-> "unstarted"]
    /\ pfTurn = [k \in Tasks |-> 0]
    /\ pfOut = [k \in Tasks |-> <<>>]
    /\ pfD = [k \in Tasks |-> NoRecord]
    /\ WebInit
    /\ GovIdle
    /\ PlanIdle

SchedStep ==
    SchedStart \/ SchedPoll \/ SchedDecide \/ SchedJoin \/ RunAggregate \/ RunMixRaise

SchedNext ==
    \/ SchedStart
    \/ SchedPoll
    \/ SchedDecide
    \/ SchedJoin
    \/ RunAggregate
    \/ RunMixRaise
    \/ PairNext

SchedSpec == SchedInit /\ [][SchedNext]_vars

\* the run of a plan of one task with the dashboard's decision writer
RunInit == SchedInit /\ Len(assignments) = 1 /\ ~verbose

RunNext ==
    \/ SchedNext
    \/ \E i \in Tasks : WebLoad(i)
    \/ WebWrite

RunSpec == RunInit /\ [][RunNext]_vars

\* the plans with a dependency cycle; the scheduler thread and the loop
\* threads keep running (they only sleep between passes)
CyclicInit == SchedInit /\ StartableFrom({}) # Tasks

\* the steps a loop thread takes by itself (poll, update); the return of an
\* invocation is up to the external agent
CmOwnStep == \E i \in Tasks : CmPoll(i) \/ CmUpdateRead(i) \/ CmUpdateWrite(i)
PfOwnStep == \E i \in Tasks : PfPoll(i) \/ PfUpdateRead(i) \/ PfUpdateWrite(i)

FairSchedSpec ==
    /\ CyclicInit
    /\ [][SchedNext]_vars
    /\ WF_vars(SchedStep)
    /\ WF_vars(CmOwnStep)
    /\ WF_vars(PfOwnStep)

\* an invocation ends: the agent answers, or run_external raises
CmInvocationEnds == \E i \in Tasks : CmReturn(i) \/ CmRaise(i)
PfInvocationEnds == \E i \in Tasks : PfReturn(i) \/ PfRaise(i)

\* one task's pair with the decision endpoint, when the loop threads keep
\* running, every invocation ends and the endpoint finishes its requests
FairSpec ==
    /\ Init
    /\ [][Next]_vars
    /\ WF_vars(CmOwnStep)
    /\ WF_vars(PfOwnStep)
    /\ WF_vars(CmInvocationEnds)
    /\ WF_vars(PfInvocationEnds)
    /\ WF_vars(WebWrite)

(***************************************************************************)
(* Specification of the token ledger under concurrent recording threads    *)
(***************************************************************************)
\* the run while the pair of a plan of one task executes: the state of the
\* other parts after the scheduler's first pass
RunExecuting ==
    /\ assignments = <<[id |-> "task-1", deps |-> <<>>]>>
    /\ verbose = FALSE
    /\ max_turns = 1
    /\ task_states = [InitialTaskStates(assignments) EXCEPT ![1].status = "running"]
    /\ done_ids = {}
    /\ exchange_paths = <<TRUE>>
    /\ schedPc = "sleep"
    /\ schedIdx = 0
    /\ notice = FALSE
    /\ stage = "performer"
    /\ progress = <<1, total_steps>>
    /\ exit_code = -1
    /\ performances = <<>>
    /\ PairInit(1)
    /\ WebInit

GovInit ==
    /\ RunExecuting
    /\ PlanIdle
    /\ \E max \in {-TokenLimit, 0, TokenLimit} :
          tracker = NewTracker(max, DefaultWarning, DefaultCompact)
    /\ compact_attempts = 0
    /\ max_compact_attempts \in 1..MaxAttemptCap
    /\ warning_fired = FALSE
    /\ compact_fired = FALSE
    /\ config \in Configs
    /\ rec = [t \in Recorders |-> IdleRec(0)]
    /\ warnings = 0
    /\ cycles = 0
    /\ hot = [warning |-> FALSE, compact |-> FALSE]

GovNext ==
    \/ \E t \in Recorders : AddUsage(t)
    \/ \E t \in Recorders : AddLoad(t)
    \/ \E t \in Recorders : AddStore(t)
    \/ \E t \in Recorders : CheckThresholds(t)
    \/ \E t \in Recorders : WarningOnceTest(t)
    \/ \E t \in Recorders : WarningOnceSet(t)
    \/ \E t \in Recorders : CompactOnceTest(t)
    \/ \E t \in Recorders : CompactOnceSet(t)
    \/ \E t \in Recorders : AttemptsTest(t)
    \/ \E t \in Recorders : AttemptsLoad(t)
    \/ \E t \in Recorders : AttemptsStore(t)
    \/ \E t \in Recorders : CompactRoles(t)
    \/ \E t \in Recorders : DiscountLoad(t)
    \/ \E t \in Recorders : DiscountStore(t)
    \/ \E t \in Recorders : CompactOnceReset(t)

GovSpec == GovInit /\ [][GovNext]_vars

(***************************************************************************)
(* Specification of the planning step of run(): lines 1517-1548            *)
(***************************************************************************)
\* line 1517: the status file says "rewriter" and the planner is not yet
\* called
NormInit ==
    /\ task \in TaskTexts
    /\ instrument_pool \in InstrumentPools
    /\ raw_score = EmptyScore
    /\ score = [instruments |-> <<>>]
    /\ normPc = "rewriter"
    /\ rewriter_result = NoResult
    /\ score_source = "fallback"
    /\ assignments = <<>>
    /\ verbose = FALSE
    /\ max_turns = 0
    /\ task_states = <<>>
    /\ done_ids = {}
    /\ exchange_paths = <<>>
    /\ schedPc = "start"
    /\ schedIdx = 1
    /\ notice = FALSE
    /\ stage = "rewriter"
    /\ progress = <<1, 20>>
    /\ performances = <<>>
    /\ exit_code = -1
    /\ PairInit(0)
    /\ WebInit
    /\ GovIdle

\* lines 1527-1546: run_external returns; the mapping extract_yaml finds on
\* stdout when the exit code is 0, else fallback_score
RunRewriter ==
    /\ normPc = "rewriter"
    /\ \E result \in RewriterResults :
          LET parsed == /\ result.returncode = 0
                        /\ result.stdout.kind \in {"map", "empty_map"}
          IN /\ rewriter_result' = result
             /\ score_source' = IF parsed THEN "rewriter" ELSE "fallback"
             /\ raw_score' = IF parsed /\ result.stdout.kind = "map"
                             THEN result.stdout.data
                             ELSE fallback_score(task)
    /\ normPc' = "raw"
    /\ UNCHANGED <<task, instrument_pool, score, govVars, runVars>>

\* lines 1527-1535 and 1776-1787: subprocess.run raises inside run_external
\* (the timeout expired, or the command cannot be spawned); run() writes
\* the stage "error" and returns 1
RewriterRaise ==
    /\ normPc = "rewriter"
    /\ normPc' = "failed"
    /\ stage' = "error"
    /\ progress' = <<1, 1>>
    /\ exit_code' = 1
    /\ UNCHANGED <<raw_score, task, instrument_pool, score, rewriter_result, score_source,
                   govVars, assignments, verbose, performances, max_turns, task_states, done_ids,
                   exchange_paths, schedPc, schedIdx, notice, exchange, lock,
                   stop_event, cmVars, pfVars, webVars>>

\* line 1547
NormalizeScore ==
    /\ normPc = "raw"
    /\ score' = normalize_score(raw_score, task, instrument_pool)
    /\ normPc' = "score"
    /\ UNCHANGED <<raw_score, task, instrument_pool, rewriter_result, score_source,
                   govVars, runVars>>

\* line 1548
NormalizeAssignments ==
    /\ normPc = "score"
    /\ assignments' = normalize_assignments(score.instruments)
    /\ normPc' = "normalized"
    /\ UNCHANGED <<raw_score, task, instrument_pool, score, rewriter_result,
                   score_source, govVars, verbose, performances, max_turns,
                   task_states, done_ids, exchange_paths, schedPc, schedIdx, notice,
                   stage, progress, exit_code, exchange, lock, stop_event, cmVars, pfVars, webVars>>

NormNext == RunRewriter \/ RewriterRaise \/ NormalizeScore \/ NormalizeAssignments

NormSpec == NormInit /\ [][NormNext]_vars

(***************************************************************************)
(* Properties of the scheduler                                             *)
(***************************************************************************)
TaskOfId(id) == CHOOSE j \in Tasks : task_states[j].id = id

Started(k) == exchange_paths[k]

\* C1: a task's pair is started only when every id of its dependency list
\* is in the completed-id set, so the task it depends on was observed done
\* (by the scheduler, on a record that says done) before the pair started.
C1_StartOnlyAfterDeps ==
    \A k \in Tasks :
        Started(k) =>
            \A n \in 1..Len(task_states[k].deps) :
                LET dep == task_states[k].deps[n]
                IN /\ dep \in done_ids
                   /\ task_states[TaskOfId(dep)].status = "done"
                   /\ Started(TaskOfId(dep))
                   /\ exchange[TaskOfId(dep)].status = "done"

C1_Witness ==
    \E k \in Tasks : Started(k) /\ Len(task_states[k].deps) > 0

Startable == StartableFrom({})
\* the tasks on a dependency cycle and the tasks depending on one
Blocked == Tasks \ Startable

LoopStopped == schedPc \in {"join", "joined", "finished", "failed"}
StoppedByDeadlock == LoopStopped /\ CountStatus("pending") > 0

NoBlockedTaskStarted == \A k \in Blocked : ~Started(k) /\ task_states[k].status = "pending"

AllStartableTerminal ==
    /\ Blocked # {}
    /\ \A k \in Startable : Started(k) /\ exchange[k].status \in Terminal

CmWrites(i) == cmPc[i] = "write" /\ cmPc'[i] # "write"
PfWrites(i) == pfPc[i] = "write" /\ pfPc'[i] # "write"
CmInvokes(i) == cmPc[i] # "invoke" /\ cmPc'[i] = "invoke"
PfInvokes(i) == pfPc[i] # "invoke" /\ pfPc'[i] = "invoke"
WebWrites(i) == webPc = "loaded" /\ webPc' = "idle" /\ webReq.target = i

AllowedTransitions ==
    { <<"waiting_for_concertmaster", "waiting_for_performer">>,
      <<"waiting_for_concertmaster", "waiting_for_user">>,
      <<"waiting_for_concertmaster", "done">>,
      <<"waiting_for_performer", "waiting_for_concertmaster">>,
      <<"waiting_for_user", "waiting_for_performer">> }

\* C3: every status change made by the supervisor loop or the executor loop
\* (from the status its update read under the lock to the status it writes)
\* is one of the five listed transitions; in particular no loop takes the
\* record out of done or error.
C3_OnlyListedTransitions ==
    [][\A i \in Tasks :
        /\ CmWrites(i) /\ exchange'[i].status # cmD[i].status
              => <<cmD[i].status, exchange'[i].status>> \in AllowedTransitions
        /\ PfWrites(i) /\ exchange'[i].status # pfD[i].status
              => <<pfD[i].status, exchange'[i].status>> \in AllowedTransitions]_vars

\* C4: the record's turn counter never exceeds the configured turn cap.
C4_TurnWithinCap == \A i \in Tasks : exchange[i].turn <= max_turns

\* C5: the cap is hard: the executor is invoked at most cap times, and the
\* supervisor does not invoke its agent once the record counts cap
\* instructions handed to the executor.
C5_HardTurnCap ==
    \A i \in Tasks :
        /\ pfTurn[i] <= max_turns
        /\ cmPc[i] = "invoke" => exchange[i].turn < max_turns

\* C6: the decision writer changes only the pending payload: its write
\* never changes status, turn or history, so no status change or history
\* entry written by a loop is lost or reverted.
C6_DecisionWriteKeepsRecord ==
    [][\A i \in Tasks :
        WebWrites(i) =>
            /\ exchange'[i].status = exchange[i].status
            /\ exchange'[i].history = exchange[i].history
            /\ exchange'[i].turn = exchange[i].turn]_vars

\* C7: no two consecutive history entries have the same role.
C7_RolesAlternate ==
    \A i \in Tasks :
        \A k \in 1..(Len(exchange[i].history) - 1) :
            exchange[i].history[k].role # exchange[i].history[k + 1].role

\* C8: while the record is waiting_for_user and no decision has been written
\* into its pending payload, neither loop starts an invocation or writes the
\* record; with a decision present, the supervisor's write appends exactly
\* one supervisor instruction, clears the pending payload and sets
\* waiting_for_performer.
C8_UserWaitIsQuiet ==
    [][\A i \in Tasks :
        exchange[i].status = "waiting_for_user" =>
            /\ ~HasDecision(exchange[i].pending) /\ i \notin answered =>
                  ~(CmInvokes(i) \/ PfInvokes(i) \/ CmWrites(i) \/ PfWrites(i))
            /\ HasDecision(exchange[i].pending) /\ CmWrites(i) =>
                  /\ Len(exchange'[i].history) = Len(exchange[i].history) + 1
                  /\ SubSeq(exchange'[i].history, 1, Len(exchange[i].history))
                        = exchange[i].history
                  /\ exchange'[i].history[Len(exchange'[i].history)].role = "concertmaster"
                  /\ exchange'[i].history[Len(exchange'[i].history)].type = "prompt"
                  /\ exchange'[i].pending = EmptyPending
                  /\ exchange'[i].status = "waiting_for_performer"]_vars

\* exactly one of the three decision fields is supplied in the body
OneFieldSupplied(payload) ==
    /\ payload.decision = ""
    /\ Cardinality({f \in {"approved", "choice", "reply"} :
            CASE f = "approved" -> payload.approved # "none"
              [] f = "choice" -> payload.choice # ""
              [] OTHER -> payload.reply # ""}) = 1

\* C9: a decision written into a record that is waiting_for_user, with any
\* one decision field supplied, is a trigger for the supervisor loop: the
\* condition on which the loop resumes holds of the record written.
C9_AnyFieldTriggers ==
    [][\A i \in Tasks :
        WebWrites(i) /\ exchange[i].status = "waiting_for_user"
                     /\ exchange'[i].status = "waiting_for_user"
                     /\ OneFieldSupplied(webReq.payload)
            => HasDecision(exchange'[i].pending)]_vars

LoopDied == \E k \in Tasks : cmPc[k] = "dead" \/ pfPc[k] = "dead"

\* C11: an exception inside a task's supervisor or executor loop thread is
\* caught at the top level: the run eventually writes stage error and exits
\* non-zero instead of polling forever on the task whose loop has died.
C11_DeadLoopEndsInError == LoopDied ~> (stage = "error" /\ exit_code = 1)

\* C12: an invocation that fails (timeout, spawn failure) comes back to the
\* calling loop as a result: the loop goes on to record the turn and does
\* not die.
C12_FailedInvocationSurvives ==
    [][\A i \in Tasks :
        /\ cmPc[i] = "invoke" /\ cmPc'[i] # "invoke" => cmPc'[i] = "update"
        /\ pfPc[i] = "invoke" /\ pfPc'[i] # "invoke" => pfPc'[i] = "update"]_vars

InCycle == {t \in Recorders : rec[t].pc \in {"role", "discount_load", "discount_store"}}

\* C14: over a run, whatever the interleaving of the recording threads, at
\* most max_compact_attempts mitigation cycles begin
C14_CyclesWithinCap == cycles <= max_compact_attempts

\* C15: no two threads are inside a mitigation cycle at the same time
C15_OneCycleAtATime == Cardinality(InCycle) <= 1

\* C16: a threshold that has fired does not fire again while the usage
\* ratio has stayed at or above it: no further cycle begins, no further
\* warning is issued
C16_OncePerCrossing ==
    [][/\ cycles' > cycles => ~hot.compact
       /\ warnings' > warnings => ~hot.warning]_vars

\* C17: when the discount of a cycle with a successful compact call is
\* complete, each of the three totals is strictly below its value at the
\* beginning of the cycle
C17_TotalsStrictlyDecrease ==
    [][\A t \in Recorders :
          rec[t].pc = "discount_store" /\ rec'[t].pc = "reset"
          => /\ tracker'.total_combined < rec[t].before.total_combined
             /\ tracker'.total_input < rec[t].before.total_input
             /\ tracker'.total_output < rec[t].before.total_output]_vars

\* C18: in one cycle no external-agent kind receives the compact
\* instruction twice
C18_OncePerKind ==
    \A t \in Recorders :
       \A m, n \in 1..Len(rec[t].compact_results) :
          m # n => rec[t].compact_results[m].cli_type # rec[t].compact_results[n].cli_type

\* the usage ratio in whole percent, rounded down; 0 without a positive budget
RatioPercent ==
    IF tracker.max_tokens <= 0 THEN 0
    ELSE (tracker.total_combined * 100) \div tracker.max_tokens

\* C19: each record call takes the compaction path exactly when the ratio is
\* at or above the compaction threshold, the warning path exactly when the
\* ratio is at or above the warning threshold and below the compaction
\* threshold, and no path otherwise; the warning callback runs only in a
\* call that took the warning path; without a positive budget the ratio is 0
C19_ThresholdPrecedence ==
    [][/\ \A t \in Recorders :
            /\ rec[t].pc = "check" /\ rec'[t].pc # "check"
               => /\ rec'[t].pc = "compact_once"
                        <=> RatioPercent >= tracker.compact_threshold
                  /\ rec'[t].pc = "warning_once"
                        <=> /\ RatioPercent >= tracker.warning_threshold
                            /\ RatioPercent < tracker.compact_threshold
                  /\ rec'[t].pc = "idle"
                        <=> /\ RatioPercent < tracker.warning_threshold
                            /\ RatioPercent < tracker.compact_threshold
            /\ rec'[t].pc = "warning_once" /\ rec[t].pc # "warning_once"
               => rec[t].pc = "check"
            /\ rec'[t].pc = "warning_set" /\ rec[t].pc # "warning_set"
               => rec[t].pc = "warning_once"
       /\ warnings' # warnings
          => \E t \in Recorders : rec[t].pc = "warning_set" /\ rec'[t].pc = "idle"]_vars

\* a call took the compaction path with the ratio exactly at the compaction
\* threshold (and so above the warning threshold)
C19_Witness ==
    \E t \in Recorders :
       /\ rec[t].pc = "compact_once"
       /\ tracker.max_tokens > 0
       /\ tracker.total_combined * 100 = tracker.compact_threshold * tracker.max_tokens
       /\ warnings = 0

(***************************************************************************)
(* Properties of the task graph normalizer                                 *)
(***************************************************************************)
\* an item from which normalize_task_entry makes a task with a text
NonEmptyTask(item) ==
    \/ item.kind = "str" /\ Strip(item.text) # ""
    \/ item.kind = "dict" /\ Strip(item.task) # ""

\* the planner output or the free-text task holds a non-empty task
HasTask ==
    \/ \E k \in 1..Len(ScoreKeys) : \E n \in 1..Len(raw_score[ScoreKeys[k]]) :
          NonEmptyTask(raw_score[ScoreKeys[k]][n])
    \/ Whole(task) # ""

\* C20: once the planning step has normalized a planner output or free-text
\* task that holds a non-empty task, the plan has at least one task; and
\* in every normalized plan each task has a non-empty id that no other task
\* of the plan has, and each dependency id of a task is the id of another
\* task of the plan.
C20_NormalizedPlan ==
    normPc = "normalized" =>
        /\ HasTask => Len(assignments) >= 1
        /\ \A k \in 1..Len(assignments) :
              /\ assignments[k].id # ""
              /\ \A j \in 1..Len(assignments) :
                    j # k => assignments[j].id # assignments[k].id
              /\ \A n \in 1..Len(assignments[k].deps) :
                    \E j \in 1..Len(assignments) :
                        j # k /\ assignments[j].id = assignments[k].deps[n]

\* a plan of three tasks has been normalized from a planner output with
\* duplicate ids and an id left out, a self reference and an unknown id
\* were dropped and a reference to another task was kept
C20_Witness ==
    /\ normPc = "normalized"
    /\ HasTask
    /\ Len(assignments) = 3
    /\ \E j, k \in 1..3 : j # k /\ score.instruments[j].id = score.instruments[k].id
    /\ \E k \in 1..3 :
          /\ \E n \in 1..Len(score.instruments[k].deps) :
                score.instruments[k].deps[n] = score.instruments[k].id
          /\ \E n \in 1..Len(score.instruments[k].deps) :
                score.instruments[k].deps[n] = "x"
          /\ Len(assignments[k].deps) >= 1

\* a task list whose ids are non-empty and unique and whose dependency ids
\* are ids of other tasks of the list
ValidPlan(list) ==
    \A k \in 1..Len(list) :
        /\ list[k].id # ""
        /\ \A j \in 1..Len(list) : j # k => list[j].id # list[k].id
        /\ \A n \in 1..Len(list[k].deps) :
              \E j \in 1..Len(list) : j # k /\ list[j].id = list[k].deps[n]

\* C21: when the list handed to normalize_assignments is already valid, the
\* normalized plan has the same ids and the same dependency ids; and
\* normalizing a normalized plan again returns it unchanged.
C21_Idempotent ==
    normPc = "normalized" =>
        /\ ValidPlan(score.instruments) =>
              /\ Len(assignments) = Len(score.instruments)
              /\ \A k \in 1..Len(assignments) :
                    /\ assignments[k].id = score.instruments[k].id
                    /\ assignments[k].deps = score.instruments[k].deps
        /\ normalize_assignments(assignments) = assignments

\* a valid list of two tasks, the second depending on the first, has been
\* normalized
C21_Witness ==
    /\ normPc = "normalized"
    /\ ValidPlan(score.instruments)
    /\ Len(score.instruments) = 2
    /\ score.instruments[2].deps = <<score.instruments[1].id>>
    /\ Len(assignments) = 2

\* the names given to the tasks before task k
NamesBefore(k) == {score.instruments[j].name : j \in 1..(k - 1)}

\* the pool names that are not blank, in pool order (line 595)
NamedPool == SelectSeq(instrument_pool, LAMBDA name : Strip(name) # "")

\* C22: in the plan normalize_score returns, the name of each task is: its
\* preferred name when it has one, as it is when no earlier task has it,
\* else with the suffix -n for the smallest n >= 2 such that no earlier
\* task has the suffixed name; without a preferred name, the first name in
\* pool order that no earlier task has; and when every pool name is taken,
\* the name synthesized from the task's position.
C22_WorkerNaming ==
    normPc \in {"score", "normalized"} =>
        LET entries == normalize_tasks(raw_score, task)
        IN /\ Len(score.instruments) = Len(entries)
           /\ \A k \in 1..Len(entries) :
                 LET name == score.instruments[k].name
                     used == NamesBefore(k)
                     preferred == entries[k].preferred
                     free == {i \in 1..Len(NamedPool) : NamedPool[i] \notin used}
                 IN IF preferred # ""
                    THEN \/ preferred \notin used /\ name = preferred
                         \/ /\ preferred \in used
                            /\ \E n \in 2..(k + 1) :
                                  /\ name = preferred \o "-" \o ToString(n)
                                  /\ name \notin used
                                  /\ \A m \in 2..(n - 1) :
                                        (preferred \o "-" \o ToString(m)) \in used
                    ELSE IF free # {}
                    THEN \E i \in free : /\ name = NamedPool[i]
                                         /\ \A j \in free : i <= j
                    ELSE name = "performer-" \o ToString(k)

\* three tasks have been named: the first from the pool, the second by its
\* preferred name, the third by the same preferred name with the suffix
\* after the one the first task holds
C22_Witness ==
    /\ normPc = "score"
    /\ Len(score.instruments) = 3
    /\ score.instruments[1].name = "solo-2"
    /\ score.instruments[2].name = "solo"
    /\ score.instruments[3].name = "solo-3"

\* the planner's call failed or printed nothing that parses
PlannerUnparsable ==
    \/ normPc = "failed"
    \/ /\ rewriter_result # NoResult
       /\ \/ rewriter_result.returncode # 0
          \/ rewriter_result.stdout.kind \in {"empty", "text"}

\* C23: when the planner's call failed or its output cannot be parsed, and
\* the user's task is not blank, the run does not end in an error, and
\* the normalized plan is one task that carries the task text and has a
\* non-empty id and a non-empty worker name.
C23_FallbackPlan ==
    PlannerUnparsable /\ Whole(task) # "" =>
        /\ stage # "error"
        /\ exit_code # 1
        /\ normPc = "normalized" =>
              /\ Len(assignments) = 1
              /\ assignments[1].id # ""
              /\ Len(score.instruments) = 1
              /\ score.instruments[1].name # ""
              /\ score.instruments[1].task = Whole(task)

(***************************************************************************)
(* Properties of the loops' termination                                    *)
(***************************************************************************)
\* C24: once the record of the task is done or error, or the task's stop
\* event is set, the supervisor loop and the executor loop both exit; and a
\* loop that polls a terminal status does not go on to an invocation.
C24_LoopsExit ==
    /\ (exchange[1].status \in Terminal \/ stop_event[1])
          ~> (ThreadOver(cmPc[1]) /\ ThreadOver(pfPc[1]))
    /\ [][/\ cmPc[1] = "poll" /\ exchange[1].status \in Terminal => cmPc'[1] # "invoke"
          /\ pfPc[1] = "poll" /\ exchange[1].status \in Terminal => pfPc'[1] # "invoke"]_vars

(***************************************************************************)
(* Properties of the aggregation and of the start of a task               *)
(***************************************************************************)
AggregationBegun == schedPc \in {"joined", "finished", "failed"}

\* C25: the final aggregation begins only after both loops of every started
\* task have exited, and its input has exactly one entry per task of the
\* plan, in plan order, holding the latest response the task's executor
\* produced (empty for a task never started or without a response).
C25_AggregationInput ==
    AggregationBegun =>
        /\ \A k \in Tasks : ThreadOver(cmPc[k]) /\ ThreadOver(pfPc[k])
        /\ DOMAIN performances = Tasks
        /\ \A k \in Tasks : performances[k] = pfOut[k]

\* a step in which a loop of task k begins to run or its record is created
StartedNow(k) ==
    \/ ThreadOver(cmPc[k]) /\ ~ThreadOver(cmPc'[k])
    \/ ThreadOver(pfPc[k]) /\ ~ThreadOver(pfPc'[k])
    \/ ~exchange_paths[k] /\ exchange_paths'[k]

\* C26: a task is started at most once and only from the lifecycle state
\* pending: the step that starts it finds both loops unstarted, leaves it
\* running with one supervisor loop, one executor loop and a free lock, and
\* with a record of status waiting_for_concertmaster, turn 0, empty history
\* and empty pending; no task returns to pending, and a loop runs only on a
\* record that exists.
C26_StartedOnce ==
    [][\A k \in Tasks :
          /\ StartedNow(k) =>
                /\ task_states[k].status = "pending"
                /\ task_states'[k].status = "running"
                /\ cmPc[k] = "unstarted" /\ pfPc[k] = "unstarted"
                /\ ~exchange_paths[k] /\ exchange_paths'[k]
                /\ cmPc'[k] = "poll" /\ pfPc'[k] = "poll"
                /\ lock'[k] = "free"
                /\ exchange'[k].status = "waiting_for_concertmaster"
                /\ exchange'[k].turn = 0
                /\ exchange'[k].history = <<>>
                /\ exchange'[k].pending = EmptyPending
          /\ task_states'[k].status = "pending" => task_states[k].status = "pending"
          /\ ~(ThreadOver(cmPc'[k]) /\ ThreadOver(pfPc'[k])) => exchange_paths'[k]
      ]_vars

\* a task is running on its record while the task it depended on is done
C26_Witness ==
    \E j, k \in Tasks :
        /\ task_states[j].status = "done"
        /\ task_states[j].id \in {task_states[k].deps[n] : n \in 1..Len(task_states[k].deps)}
        /\ task_states[k].status = "running"
        /\ cmPc[k] = "invoke"
        /\ exchange[j].history # <<>>

(***************************************************************************)
(* Properties of the status file                                          *)
(***************************************************************************)
RatioEq(a, b) == a[1] * b[2] = b[1] * a[2]
RatioLess(a, b) == a[1] * b[2] < b[1] * a[2]

\* a step that writes the status file with another stage or progress
StatusWritten == <<stage, progress>>' # <<stage, progress>>

\* C27: a progress value written while tasks are executing equals
\* (1 + completedCount) / (taskCount + 2) and is below 1, progress never
\* decreases from one write to the next, and 1 is written only once the
\* final aggregation has begun.
C27_Progress ==
    [][StatusWritten =>
          /\ CountStatus("running") > 0 =>
                /\ RatioEq(progress', <<1 + CountStatus("done"), Len(assignments) + 2>>)
                /\ RatioLess(progress', <<1, 1>>)
          /\ ~RatioLess(progress', progress)
          /\ RatioEq(progress', <<1, 1>>) => AggregationBegun'
      ]_vars

\* C28: the stage of the status file, whichever thread wrote it last, is one
\* of initialized, rewriter, rewriter_done, performer, mix, mix_done, done
\* and error; in particular it is never stalled or killed.
C28_StageValues ==
    stage \in {"initialized", "rewriter", "rewriter_done", "performer", "mix",
               "mix_done", "done", "error"}

(***************************************************************************)
(* Properties of the decision envelope                                    *)
(***************************************************************************)
\* C29: whatever output the supervisor's agent returned, if it does not
\* decide done or needs_user_confirm the loop goes on to an update that
\* appends a non-empty instruction, sets the status waiting_for_performer
\* and increments the turn, and the loop polls again afterwards.
C29_MalformedNeverFatal ==
    [][\A i \in Tasks :
          /\ (CmReturn(i) /\ cmFn'[i].kind \notin {"apply_done", "apply_user_wait"}) =>
                /\ cmPc'[i] = "update"
                /\ cmFn'[i].kind = "apply_reply"
                /\ cmFn'[i].text # <<>>
          /\ (CmUpdateWrite(i) /\ cmFn[i].kind = "apply_reply") =>
                /\ exchange'[i].status = "waiting_for_performer"
                /\ exchange'[i].turn = cmD[i].turn + 1
                /\ exchange'[i].history =
                      Append(cmD[i].history, [role |-> "concertmaster", type |-> "prompt",
                                              content |-> cmFn[i].text])
                /\ cmPc'[i] = "poll"
      ]_vars

\* positions of the enumerators of a question
EnumPositions(q) == {p \in 1..Len(q) : KindOf(q[p]) # "word"}

\* an enumerated list: enumerators of one kind, two at least, the first at
\* the start, each followed by a word
RegularList(q) ==
    /\ Cardinality(EnumPositions(q)) >= 2
    /\ 1 \in EnumPositions(q)
    /\ \A p \in EnumPositions(q) :
          /\ KindOf(q[p]) = KindOf(q[1])
          /\ p < Len(q) /\ KindOf(q[p + 1]) = "word"

\* the items of an enumerated list, "n: text"
ListItems(q) ==
    LET P == EnumPositions(q)
        at == CHOOSE f \in [1..Cardinality(P) -> P] :
                \A a, b \in 1..Cardinality(P) : a < b => f[a] < f[b]
        end(k) == IF k = Cardinality(P) THEN Len(q) ELSE at[k + 1] - 1
    IN [k \in 1..Cardinality(P) |->
            <<NumOf(q[at[k]]) \o ":">> \o SubSeq(q, at[k] + 1, end(k))]

ValidTypeGiven(ctype) == Lower(ctype) \in {"ok_ng", "choice", "free_text"}

\* C30: when the supervisor's agent asks for a confirmation without explicit
\* options, the options of the pending confirmation are the items of the
\* enumerated list in the question (none when the question has fewer than
\* two enumerators), the type is choice exactly when there are options and
\* no valid type was given and ok_ng otherwise, and for the question
\* "(1) A (2) B" the options are "1: A", "2: B" and the type is choice.
C30_DerivedOptions ==
    [][(cmPc[1] = "invoke" /\ cmPc'[1] # "invoke") =>
          LET asked == IF cmFn'[1].kind = "apply_user_wait"
                       THEN {cmFn'[1].confirm.question, <<>>}
                       ELSE {ExampleQuestion}
          IN \A question \in asked, ctype \in ConfirmTypes :
                CmDecide(1, MapOut(ActionData("needs_user_confirm", <<>>, <<>>,
                                              question, ctype, <<>>))) =>
                    LET confirm == cmFn'[1].confirm
                    IN /\ cmFn'[1].kind = "apply_user_wait"
                       /\ RegularList(question) => confirm.options = ListItems(question)
                       /\ Cardinality(EnumPositions(question)) < 2 => confirm.options = <<>>
                       /\ confirm.type = IF confirm.options # <<>> /\ ~ValidTypeGiven(ctype)
                                         THEN "choice" ELSE "ok_ng"
                       /\ (question = ExampleQuestion /\ ~ValidTypeGiven(ctype)) =>
                              /\ confirm.options = << <<"1:", "A">>, <<"2:", "B">> >>
                              /\ confirm.type = "choice"
      ]_vars

(***************************************************************************)
(* Properties of the two loops' steps                                     *)
(***************************************************************************)
\* C31: when the supervisor starts an invocation, its prompt is the opening
\* instruction if the history holds no executor response, and otherwise a
\* review of the latest executor response, also when that response is the
\* empty text.
C31_PromptKind ==
    [][\A i \in Tasks :
          (cmPc[i] = "poll" /\ cmPc'[i] = "invoke") =>
              cmFn'[i].prompt =
                  IF LastOfRole(exchange[i].history, "performer",
                                Len(exchange[i].history)) = 0
                  THEN "initial" ELSE "review"
      ]_vars

\* C32: the executor starts an invocation only on the status
\* waiting_for_performer, and its write to the record appends exactly one
\* response entry of the executor and sets the status
\* waiting_for_concertmaster on a record that was waiting_for_performer,
\* leaving the turn, the pending payload, the worker descriptor and the
\* earlier history entries as they were.
C32_ExecutorWrite ==
    [][\A i \in Tasks :
          /\ (pfPc[i] = "poll" /\ pfPc'[i] = "invoke") =>
                exchange[i].status = "waiting_for_performer"
          /\ (pfPc[i] = "write" /\ pfPc'[i] # "write") =>
                /\ exchange[i].status = "waiting_for_performer"
                /\ exchange'[i].history =
                      Append(exchange[i].history,
                             [role |-> "performer", type |-> "response",
                              content |-> pfOut[i]])
                /\ exchange'[i].status = "waiting_for_concertmaster"
                /\ exchange'[i].turn = exchange[i].turn
                /\ exchange'[i].pending = exchange[i].pending
                /\ exchange'[i].performer = exchange[i].performer
      ]_vars

(***************************************************************************)
(* Properties of the end of the scheduler loop                            *)
(***************************************************************************)
AllTasksTerminal == \A k \in Tasks : task_states[k].status \in {"done", "error"}

\* C33: the scheduler loop has stopped only if every task is terminal, or
\* if no task is running while tasks are pending and none of the pending
\* tasks is eligible to start.
C33_StopsOnlyWhenDue ==
    LoopStopped =>
        \/ AllTasksTerminal
        \/ /\ CountStatus("running") = 0
           /\ CountStatus("pending") > 0
           /\ \A k \in Tasks : ~Ready(k)

\* the part of C33 about progress: if the pair of every started task reaches
\* a terminal status, the loop stops and the aggregation begins
C33_ReachesAggregation ==
    (\A k \in 1..MaxItems :
        (k \in Tasks /\ exchange_paths[k])
            ~> (k \in Tasks /\ exchange[k].status \in Terminal))
    => <>AggregationBegun

(***************************************************************************)
(* Properties of the record                                               *)
(***************************************************************************)
\* the instructions of the supervisor in a history
Instructions(history) ==
    {n \in 1..Len(history) :
        history[n].role = "concertmaster" /\ history[n].type = "prompt"}

\* the instructions the supervisor's agent can have written
AgentReplies == {<<"R">>, <<"continue_please">>}

\* C34: in every state of a record, the turn counter equals the number of
\* instruction entries (type prompt) of the supervisor in the history,
\* whether the instruction is an agent's reply or was built from a human
\* decision.
C34_TurnCountsInstructions ==
    \A i \in Tasks :
        exchange_paths[i] =>
            exchange[i].turn = Cardinality(Instructions(exchange[i].history))

\* a record of turn 2 with an instruction of the agent and an instruction
\* built from a human decision
C34_Witness ==
    \E i \in Tasks :
        /\ exchange[i].turn = 2
        /\ \E n \in Instructions(exchange[i].history) :
              exchange[i].history[n].content \in AgentReplies
        /\ \E n \in Instructions(exchange[i].history) :
              exchange[i].history[n].content \notin AgentReplies

\* C35: in every state of a record, the status waiting_for_performer comes
\* with a last history entry that is an instruction of the supervisor (type
\* prompt), and the status waiting_for_concertmaster with a history that is
\* empty or ends with a response of the executor.
C35_LastEntryMatchesStatus ==
    \A i \in Tasks :
        exchange_paths[i] =>
            LET history == exchange[i].history
                last == history[Len(history)]
            IN /\ exchange[i].status = "waiting_for_performer" =>
                    /\ history # <<>>
                    /\ last.role = "concertmaster" /\ last.type = "prompt"
               /\ (exchange[i].status = "waiting_for_concertmaster" /\ history # <<>>) =>
                    last.role = "performer" /\ last.type = "response"

\* the executor is handed a second instruction, newer than its response
C35_Witness ==
    \E i \in Tasks :
        LET history == exchange[i].history
        IN /\ exchange[i].status = "waiting_for_performer"
           /\ Len(history) >= 3
           /\ history[Len(history)].type = "prompt"
           /\ history[Len(history) - 1].role = "performer"

(***************************************************************************)
(* Properties of the human decision                                        *)
(***************************************************************************)
\* the step in which the decision endpoint writes task i's record: the
\* write-back of a loaded record, or the load and write in one step
DecisionWrite(i) ==
    \/ WebWrites(i)
    \/ /\ webPc = "idle" /\ webPc' = "idle"
       /\ webCount' = webCount + 1
       /\ exchange'[i] # exchange[i]

\* C36: each decision resolves at most one confirmation: the supervisor's
\* write that consumes a decision leaves the pending payload empty, the write
\* that asks for a confirmation leaves its three decision fields empty, and a
\* decision written while the record is not waiting_for_user leaves it
\* outside waiting_for_user, where a decision is never read, so that no
\* confirmation is answered by it and no instruction is built from it.
C36_OneDecisionOneConfirmation ==
    [][\A i \in Tasks :
          /\ (CmWrites(i) /\ cmFn[i].kind = "apply_user") =>
                exchange'[i].pending = EmptyPending
          /\ (CmWrites(i) /\ cmFn[i].kind = "apply_user_wait") =>
                /\ exchange'[i].status = "waiting_for_user"
                /\ ~HasDecision(exchange'[i].pending)
          /\ (DecisionWrite(i) /\ exchange[i].status # "waiting_for_user") =>
                exchange'[i].status # "waiting_for_user"]_vars

\* C37: for a binary-approval confirmation, the instruction the supervisor
\* builds from the decision is the approval reply (the ok_reply template, or
\* the generated approval sentence) exactly when the decision's approval flag
\* is true, whatever the reply text is.
C37_ApprovalFollowsFlag ==
    [][\A i \in Tasks :
          LET pending == exchange[i].pending
              approval ==
                  IF pending.ok_reply # <<>> THEN pending.ok_reply
                  ELSE IF pending.question # <<>>
                  THEN <<"question:">> \o pending.question
                           \o <<"answer:", "OK", "proceed_as_proposed">>
                  ELSE <<"user_answer:", "OK", "proceed_as_proposed">>
          IN (/\ cmPc[i] = "poll" /\ cmPc'[i] = "update"
              /\ cmFn'[i].kind = "apply_user"
              /\ Lower(OrElseS(pending.type, "ok_ng")) \notin {"choice", "free_text"})
             => (cmFn'[i].text = approval <=> pending.user_approved)]_vars

(***************************************************************************)
(* Properties of the ledger                                                *)
(***************************************************************************)
\* C38: a mitigation cycle consumes one of the capped attempts when it
\* begins, and when none of its compact calls succeeds (no role of a known
\* agent kind included) its steps leave the three totals, the call count and
\* the history of the ledger as they were.
C38_FailedCycle ==
    [][\A t \in Recorders :
          /\ (rec[t].pc = "attempts_store" /\ rec'[t].pc = "role") =>
                compact_attempts' = compact_attempts + 1
          /\ (rec[t].pc = "role" /\ rec'[t].pc = "reset") =>
                /\ tracker' = tracker
                /\ compact_attempts' = compact_attempts
          /\ (/\ rec[t].pc = "reset" /\ rec'[t].pc = "idle"
              /\ \A n \in 1..Len(rec[t].compact_results) :
                    ~rec[t].compact_results[n].success) =>
                /\ tracker' = tracker
                /\ compact_attempts' = compact_attempts]_vars

\* C39: whenever no thread is inside add_usage or inside the discount of a
\* mitigation cycle, the combined total of the ledger is the sum of its input
\* total and its output total.
C39_CombinedIsSum ==
    (\A t \in Recorders : rec[t].pc = "idle") =>
        tracker.total_combined = tracker.total_input + tracker.total_output

(***************************************************************************)
(* Properties of the worker names                                          *)
(***************************************************************************)
\* C40: the names assign_instruments gives to the tasks of one plan are
\* pairwise distinct, whatever the preferred names, the pool and the number
\* of tasks are.
C40_NamesDistinct ==
    normPc \in {"score", "normalized"} =>
        \A j, k \in 1..Len(score.instruments) :
            j # k => score.instruments[j].name # score.instruments[k].name

====
